---- MODULE Spec2Model ----
(***************************************************************************)
(* Model of the APDS9300 ambient light sensor driver                       *)
(* (drivers/staging/iio/light/apds9300.c).                                 *)
(*                                                                         *)
(* The session (struct als_data) is the record "data".  Every I2C          *)
(* transaction a call issues is appended to "xfers"; the outcome of each   *)
(* transaction is chosen by the bus (the external collaborator) and is an  *)
(* input of the action.  "call" records the call that completed last and   *)
(* "pre" the session as it was when that call began.                       *)
(*                                                                         *)
(* Two specifications are defined:                                         *)
(*   Spec      the driver as the kernel drives it: als_probe, the IIO      *)
(*             callbacks, the interrupt handler, suspend/resume,           *)
(*             als_remove;                                                 *)
(*   SpecCore  the core functions of the session called directly in any    *)
(*             order, the way a unit test with a mock transport calls      *)
(*             them.                                                       *)
(***************************************************************************)
EXTENDS Integers, Naturals, Sequences, FiniteSets, TLC

(***************************************************************************)
(* Bounds of the model                                                     *)
(***************************************************************************)
\* threshold arguments -1 .. SmallMax are tried besides the named ones
SmallMax == 0
\* channel readings 0 .. LuxSmall are tried besides the named ones
LuxSmall == 1

(***************************************************************************)
(* Program constants                                                       *)
(***************************************************************************)
ALS_CMD == 128
ALS_WORD == 32
ALS_CLEAR == 64

ALS_CONTROL == 0
ALS_THRESHLOWLOW == 2
ALS_THRESHHIGHLOW == 4
ALS_INTERRUPT == 6
ALS_DATA0LOW == 12
ALS_DATA1LOW == 14

ALS_POWER_ON == 3
ALS_POWER_OFF == 0

ALS_INTR_ENABLE == 16
ALS_THRESH_INTR == 1

ALS_THRESH_MAX == 65535

\* errno values
EIO == 5
ENOMEM == 12
EAGAIN == 11
ENODEV == 19
EBUSY == 16
EEXIST == 17
EINVAL == 22
ETIMEDOUT == 110

\* enum iio_event_direction, enum iio_chan_type, IIO_VAL_INT
IIO_EV_DIR_EITHER == 0
IIO_EV_DIR_RISING == 1
IIO_EV_DIR_FALLING == 2
IIO_LIGHT == 3
IIO_INTENSITY == 4
IIO_VAL_INT == 1

(***************************************************************************)
(* C arithmetic                                                            *)
(***************************************************************************)
RECURSIVE BitOr(_, _)
\* a | b on non-negative integers
BitOr(a, b) ==
    IF a = 0 THEN b
    ELSE IF b = 0 THEN a
    ELSE (IF (a % 2) + (b % 2) > 0 THEN 1 ELSE 0) + (2 * BitOr(a \div 2, b \div 2))

\* conversion of an int to u16 (modulo 2^16)
ToU16(x) == x % 65536

\* A 32-bit word (int, unsigned long on the 32-bit ARM target) is the pair
\* << high half, low half >> of 16-bit halves; its value is hi * 2^16 + lo.
\* conversion of an exact integer -2^31 <= n < 2^31 to the 32-bit word
U32FromInt(n) == << (n \div 65536) % 65536, n % 65536 >>
\* a * b modulo 2^32, 0 <= b < 2^15
U32MulSmall(a, b) ==
    LET p == a[2] * b
    IN  << ((a[1] * b) + (p \div 65536)) % 65536, p % 65536 >>
\* a - b modulo 2^32
U32Sub(a, b) ==
    LET l == a[2] - b[2]
        borrow == IF l < 0 THEN 1 ELSE 0
    IN  << (a[1] - b[1] - borrow) % 65536, l % 65536 >>
\* unsigned a / dv, dv >= 1000 (long division over the four bytes)
U32DivSmall(a, dv) ==
    LET c3 == a[1] \div 256
        c2 == ((c3 % dv) * 256) + (a[1] % 256)
        c1 == ((c2 % dv) * 256) + (a[2] \div 256)
        c0 == ((c1 % dv) * 256) + (a[2] % 256)
    IN  ((((((c3 \div dv) * 256) + (c2 \div dv)) * 256) + (c1 \div dv)) * 256) + (c0 \div dv)
\* signed a / dv, truncating toward zero as C does
S32DivSmall(a, dv) ==
    IF a[1] >= 32768 THEN -U32DivSmall(U32Sub(<< 0, 0 >>, a), dv)
                     ELSE U32DivSmall(a, dv)

(***************************************************************************)
(* Lux calculation                                                         *)
(***************************************************************************)
\* variant: the last coefficient is missing (52 entries, indices 0..51)
lux_ratio_short ==
    << 0, 2, 4, 7, 11, 15, 19, 24, 29, 34, 40, 45, 51, 57, 64, 70, 77, 84, 91,
       98, 105, 112, 120, 128, 136, 144, 152, 160, 168, 177, 185, 194, 203,
       212, 221, 230, 239, 249, 258, 268, 277, 287, 297, 307, 317, 327, 337,
       347, 358, 368, 379, 390 >>

\* variant: the coefficient of ratio 30 is 268
lux_ratio_268 ==
    << 0, 2, 4, 7, 11, 15, 19, 24, 29, 34, 40, 45, 51, 57, 64, 70, 77, 84, 91,
       98, 105, 112, 120, 128, 136, 144, 152, 160, 168, 177, 268, 194, 203,
       212, 221, 230, 239, 249, 258, 268, 277, 287, 297, 307, 317, 327, 337,
       347, 358, 368, 379, 390, 400 >>

lux_ratio ==
    << 0, 2, 4, 7, 11, 15, 19, 24, 29, 34, 40, 45, 51, 57, 64, 70, 77, 84, 91,
       98, 105, 112, 120, 128, 136, 144, 152, 160, 168, 177, 185, 194, 203,
       212, 221, 230, 239, 249, 258, 268, 277, 287, 297, 307, 317, 327, 337,
       347, 358, 368, 379, 390, 400 >>

\* lux_ratio[i] with the C index i (0-based)
lux_ratio_at(i) == lux_ratio[i + 1]

\* the arithmetic of one lux calculation: whether the division ch1 * 100 /
\* ch0 was performed, the index at which lux_ratio was read (NoVal: not
\* read) and the term (unsigned long)tmp64 that was subtracted
NoCalc == [div |-> FALSE, idx |-> -1, term |-> << 0, 0 >>]

\* variant: the test of ch0 is missing; the division by zero is left to the
\* ARM division helper, which reports it and returns 0
als_calculate_lux_steps_noguard(ch0, ch1) ==
    LET tmp == IF ch0 = 0 THEN 0 ELSE (ch1 * 100) \div ch0
        tmp64 == S32DivSmall(
                     U32MulSmall(U32FromInt(ch0 * lux_ratio_at(tmp)), 5930), 1000)
        lux ==
            IF tmp <= 52
            THEN U32Sub(U32FromInt(3150 * ch0), U32FromInt(tmp64))
            ELSE IF tmp <= 65
            THEN U32FromInt(2290 * ch0 - 2910 * ch1)
            ELSE IF tmp <= 80
            THEN U32FromInt(1570 * ch0 - 1800 * ch1)
            ELSE IF tmp <= 130
            THEN U32FromInt(338 * ch0 - 260 * ch1)
            ELSE << 0, 0 >>
    IN  [ret  |-> U32DivSmall(lux, 100000),
         div  |-> TRUE,
         idx  |-> IF tmp <= 52 THEN tmp ELSE -1,
         term |-> IF tmp <= 52 THEN U32FromInt(tmp64) ELSE << 0, 0 >>]

\* variant: the coefficients of the second and the third branch are taken
\* for each other
als_calculate_lux_steps_swapped(ch0, ch1) ==
    IF ch0 = 0 THEN [ret |-> 0, div |-> FALSE, idx |-> -1, term |-> << 0, 0 >>]
    ELSE LET tmp == (ch1 * 100) \div ch0
             tmp64 == S32DivSmall(
                          U32MulSmall(U32FromInt(ch0 * lux_ratio_at(tmp)), 5930), 1000)
             lux ==
                 IF tmp <= 52
                 THEN U32Sub(U32FromInt(3150 * ch0), U32FromInt(tmp64))
                 ELSE IF tmp <= 65
                 THEN U32FromInt(1570 * ch0 - 1800 * ch1)
                 ELSE IF tmp <= 80
                 THEN U32FromInt(2290 * ch0 - 2910 * ch1)
                 ELSE IF tmp <= 130
                 THEN U32FromInt(338 * ch0 - 260 * ch1)
                 ELSE << 0, 0 >>
         IN  [ret  |-> U32DivSmall(lux, 100000),
              div  |-> TRUE,
              idx  |-> IF tmp <= 52 THEN tmp ELSE -1,
              term |-> IF tmp <= 52 THEN U32FromInt(tmp64) ELSE << 0, 0 >>]

\* variant: the table branch is taken for tmp < 52 only
als_calculate_lux_steps_exclusive(ch0, ch1) ==
    IF ch0 = 0 THEN [ret |-> 0, div |-> FALSE, idx |-> -1, term |-> << 0, 0 >>]
    ELSE LET tmp == (ch1 * 100) \div ch0
             tmp64 == S32DivSmall(
                          U32MulSmall(U32FromInt(ch0 * lux_ratio_at(tmp)), 5930), 1000)
             lux ==
                 IF tmp < 52
                 THEN U32Sub(U32FromInt(3150 * ch0), U32FromInt(tmp64))
                 ELSE IF tmp <= 65
                 THEN U32FromInt(2290 * ch0 - 2910 * ch1)
                 ELSE IF tmp <= 80
                 THEN U32FromInt(1570 * ch0 - 1800 * ch1)
                 ELSE IF tmp <= 130
                 THEN U32FromInt(338 * ch0 - 260 * ch1)
                 ELSE << 0, 0 >>
         IN  [ret  |-> U32DivSmall(lux, 100000),
              div  |-> TRUE,
              idx  |-> IF tmp < 52 THEN tmp ELSE -1,
              term |-> IF tmp < 52 THEN U32FromInt(tmp64) ELSE << 0, 0 >>]

\* variant: lux is a signed value, and a negative one is returned as 0
als_calculate_lux_steps_clamped(ch0, ch1) ==
    IF ch0 = 0 THEN [ret |-> 0, div |-> FALSE, idx |-> -1, term |-> << 0, 0 >>]
    ELSE LET tmp == (ch1 * 100) \div ch0
             tmp64 == S32DivSmall(
                          U32MulSmall(U32FromInt(ch0 * lux_ratio_at(tmp)), 5930), 1000)
             lin ==
                 IF tmp <= 65 THEN (2290 * ch0) - (2910 * ch1)
                 ELSE IF tmp <= 80 THEN (1570 * ch0) - (1800 * ch1)
                 ELSE IF tmp <= 130 THEN (338 * ch0) - (260 * ch1)
                 ELSE 0
             lux ==
                 IF tmp <= 52
                 THEN U32Sub(U32FromInt(3150 * ch0), U32FromInt(tmp64))
                 ELSE IF lin < 0 THEN << 0, 0 >>
                 ELSE U32FromInt(lin)
         IN  [ret  |-> U32DivSmall(lux, 100000),
              div  |-> TRUE,
              idx  |-> IF tmp <= 52 THEN tmp ELSE -1,
              term |-> IF tmp <= 52 THEN U32FromInt(tmp64) ELSE << 0, 0 >>]

\* unsigned long als_calculate_lux(u16 ch0, u16 ch1), with its arithmetic.
\* The u16 operands are promoted to int; the product ch0 * lux_ratio[tmp] *
\* 5930 is an int product, kept modulo 2^32 (the kernel is built with
\* wrapping signed arithmetic), divided as an int, widened to u64 and cut
\* to unsigned long.
als_calculate_lux_steps(ch0, ch1) ==
    IF ch0 = 0 THEN [ret |-> 0, div |-> FALSE, idx |-> -1, term |-> << 0, 0 >>]
    ELSE LET tmp == (ch1 * 100) \div ch0
             tmp64 == S32DivSmall(
                          U32MulSmall(U32FromInt(ch0 * lux_ratio_at(tmp)), 5930), 1000)
             lux ==
                 IF tmp <= 52
                 THEN U32Sub(U32FromInt(3150 * ch0), U32FromInt(tmp64))
                 ELSE IF tmp <= 65
                 THEN U32FromInt(2290 * ch0 - 2910 * ch1)
                 ELSE IF tmp <= 80
                 THEN U32FromInt(1570 * ch0 - 1800 * ch1)
                 ELSE IF tmp <= 130
                 THEN U32FromInt(338 * ch0 - 260 * ch1)
                 ELSE << 0, 0 >>
         IN  [ret  |-> U32DivSmall(lux, 100000),
              div  |-> TRUE,
              idx  |-> IF tmp <= 52 THEN tmp ELSE -1,
              term |-> IF tmp <= 52 THEN U32FromInt(tmp64) ELSE << 0, 0 >>]

\* the value als_calculate_lux returns
als_calculate_lux(ch0, ch1) == als_calculate_lux_steps(ch0, ch1).ret

(***************************************************************************)
(* The bus transport (external): outcomes of one transaction               *)
(***************************************************************************)
BusErr == {-EIO, -ETIMEDOUT}
\* i2c_smbus_write_byte_data / write_word_data / write_byte: 0 or -errno
WriteRes == {0} \cup BusErr
\* i2c_smbus_read_byte_data on CONTROL: the byte read or -errno
ReadByteRes == {ALS_POWER_ON, ALS_POWER_OFF, -EIO}
\* i2c_smbus_read_word_data on DATA0LOW/DATA1LOW: the word read or -errno
AdcVals == {0, 300, 1000, 65535}
ReadWordRes == AdcVals \cup {-EIO}

\* no payload (i2c_smbus_write_byte, reads)
NoVal == -1
\* one transaction as the transport sees it: primitive, command byte,
\* payload written, result
Xfer(prim, cmd, val, res) == [prim |-> prim, cmd |-> cmd, val |-> val, res |-> res]

(***************************************************************************)
(* The session and its core functions.  Each returns the session after    *)
(* the call (d), the return value (ret) and the transactions issued (x).   *)
(***************************************************************************)
\* struct als_data as allocated (zeroed) by iio_allocate_device
ZeroData == [power_state |-> 0, thresh_low |-> 0, thresh_hi |-> 0, intr_en |-> 0]

\* variant: power_state is stored before the result of the write is known
als_set_power_state_eager(d, state, w) ==
    LET cmd == IF state # 0 THEN ALS_POWER_ON ELSE ALS_POWER_OFF
    IN  [d   |-> [d EXCEPT !.power_state = state],
         ret |-> w,
         x   |-> << Xfer("write_byte_data", BitOr(ALS_CONTROL, ALS_CMD), cmd, w) >>]

als_set_power_state(d, state, w) ==
    LET cmd == IF state # 0 THEN ALS_POWER_ON ELSE ALS_POWER_OFF
    IN  [d   |-> IF w = 0 THEN [d EXCEPT !.power_state = state] ELSE d,
         ret |-> w,
         x   |-> << Xfer("write_byte_data", BitOr(ALS_CONTROL, ALS_CMD), cmd, w) >>]

\* variant: a failed read is issued a second time
als_get_adc_val_retry(d, adc_number, r) ==
    IF d.power_state = 0
    THEN [d |-> d, ret |-> -EAGAIN, x |-> << >>]
    ELSE LET flags == BitOr(BitOr(ALS_CMD, ALS_WORD),
                            IF adc_number # 0 THEN ALS_DATA1LOW ELSE ALS_DATA0LOW)
             t == Xfer("read_word_data", flags, NoVal, r)
         IN  [d |-> d, ret |-> r, x |-> IF r < 0 THEN << t, t >> ELSE << t >>]

\* variant: ALS_WORD is missing from the command byte
als_get_adc_val_byte(d, adc_number, r) ==
    IF d.power_state = 0
    THEN [d |-> d, ret |-> -EAGAIN, x |-> << >>]
    ELSE LET flags == BitOr(ALS_CMD, IF adc_number # 0 THEN ALS_DATA1LOW ELSE ALS_DATA0LOW)
         IN  [d |-> d, ret |-> r, x |-> << Xfer("read_word_data", flags, NoVal, r) >>]

als_get_adc_val(d, adc_number, r) ==
    IF d.power_state = 0
    THEN [d |-> d, ret |-> -EAGAIN, x |-> << >>]
    ELSE LET flags == BitOr(BitOr(ALS_CMD, ALS_WORD),
                            IF adc_number # 0 THEN ALS_DATA1LOW ELSE ALS_DATA0LOW)
         IN  [d |-> d, ret |-> r, x |-> << Xfer("read_word_data", flags, NoVal, r) >>]

\* variant: the power_state check is missing
als_set_thresh_low_ungated(d, value, w) ==
    IF value > ALS_THRESH_MAX \/ value > d.thresh_hi
    THEN [d |-> d, ret |-> -EINVAL, x |-> << >>]
    ELSE [d   |-> IF w = 0 THEN [d EXCEPT !.thresh_low = value] ELSE d,
          ret |-> w,
          x   |-> << Xfer("write_word_data",
                          BitOr(BitOr(ALS_THRESHLOWLOW, ALS_CMD), ALS_WORD),
                          ToU16(value), w) >>]

\* variant: the comparison with thresh_hi is inverted
als_set_thresh_low_inverted(d, value, w) ==
    IF d.power_state = 0
    THEN [d |-> d, ret |-> -EAGAIN, x |-> << >>]
    ELSE IF value > ALS_THRESH_MAX \/ value < d.thresh_hi
    THEN [d |-> d, ret |-> -EINVAL, x |-> << >>]
    ELSE [d   |-> IF w = 0 THEN [d EXCEPT !.thresh_low = value] ELSE d,
          ret |-> w,
          x   |-> << Xfer("write_word_data",
                          BitOr(BitOr(ALS_THRESHLOWLOW, ALS_CMD), ALS_WORD),
                          ToU16(value), w) >>]

\* variant: a value equal to thresh_hi is rejected
als_set_thresh_low_strict(d, value, w) ==
    IF d.power_state = 0
    THEN [d |-> d, ret |-> -EAGAIN, x |-> << >>]
    ELSE IF value > ALS_THRESH_MAX \/ value >= d.thresh_hi
    THEN [d |-> d, ret |-> -EINVAL, x |-> << >>]
    ELSE [d   |-> IF w = 0 THEN [d EXCEPT !.thresh_low = value] ELSE d,
          ret |-> w,
          x   |-> << Xfer("write_word_data",
                          BitOr(BitOr(ALS_THRESHLOWLOW, ALS_CMD), ALS_WORD),
                          ToU16(value), w) >>]

als_set_thresh_low(d, value, w) ==
    IF d.power_state = 0
    THEN [d |-> d, ret |-> -EAGAIN, x |-> << >>]
    ELSE IF value > ALS_THRESH_MAX \/ value > d.thresh_hi
    THEN [d |-> d, ret |-> -EINVAL, x |-> << >>]
    ELSE [d   |-> IF w = 0 THEN [d EXCEPT !.thresh_low = value] ELSE d,
          ret |-> w,
          x   |-> << Xfer("write_word_data",
                          BitOr(BitOr(ALS_THRESHLOWLOW, ALS_CMD), ALS_WORD),
                          ToU16(value), w) >>]

\* variant: only the range is checked, not the order with thresh_low
als_set_thresh_hi_unordered(d, value, w) ==
    IF d.power_state = 0
    THEN [d |-> d, ret |-> -EAGAIN, x |-> << >>]
    ELSE IF value > ALS_THRESH_MAX
    THEN [d |-> d, ret |-> -EINVAL, x |-> << >>]
    ELSE [d   |-> IF w = 0 THEN [d EXCEPT !.thresh_hi = value] ELSE d,
          ret |-> w,
          x   |-> << Xfer("write_word_data",
                          BitOr(BitOr(ALS_THRESHHIGHLOW, ALS_CMD), ALS_WORD),
                          ToU16(value), w) >>]

als_set_thresh_hi(d, value, w) ==
    IF d.power_state = 0
    THEN [d |-> d, ret |-> -EAGAIN, x |-> << >>]
    ELSE IF value > ALS_THRESH_MAX \/ value < d.thresh_low
    THEN [d |-> d, ret |-> -EINVAL, x |-> << >>]
    ELSE [d   |-> IF w = 0 THEN [d EXCEPT !.thresh_hi = value] ELSE d,
          ret |-> w,
          x   |-> << Xfer("write_word_data",
                          BitOr(BitOr(ALS_THRESHHIGHLOW, ALS_CMD), ALS_WORD),
                          ToU16(value), w) >>]

\* variant: intr_en is stored before the outcome of the write is known
als_set_intr_state_eager(d, state, w) ==
    IF d.power_state = 0
    THEN [d |-> d, ret |-> -EAGAIN, x |-> << >>]
    ELSE LET cmd == IF state # 0 THEN BitOr(ALS_INTR_ENABLE, ALS_THRESH_INTR) ELSE 0
         IN  [d   |-> [d EXCEPT !.intr_en = state],
              ret |-> w,
              x   |-> << Xfer("write_byte_data", BitOr(ALS_INTERRUPT, ALS_CMD), cmd, w) >>]

\* variant: ALS_THRESH_INTR is missing from the value written
als_set_intr_state_level(d, state, w) ==
    IF d.power_state = 0
    THEN [d |-> d, ret |-> -EAGAIN, x |-> << >>]
    ELSE LET cmd == IF state # 0 THEN ALS_INTR_ENABLE ELSE 0
         IN  [d   |-> IF w = 0 THEN [d EXCEPT !.intr_en = state] ELSE d,
              ret |-> w,
              x   |-> << Xfer("write_byte_data", BitOr(ALS_INTERRUPT, ALS_CMD), cmd, w) >>]

als_set_intr_state(d, state, w) ==
    IF d.power_state = 0
    THEN [d |-> d, ret |-> -EAGAIN, x |-> << >>]
    ELSE LET cmd == IF state # 0 THEN BitOr(ALS_INTR_ENABLE, ALS_THRESH_INTR) ELSE 0
         IN  [d   |-> IF w = 0 THEN [d EXCEPT !.intr_en = state] ELSE d,
              ret |-> w,
              x   |-> << Xfer("write_byte_data", BitOr(ALS_INTERRUPT, ALS_CMD), cmd, w) >>]

\* variant: the latch is cleared only while the device is powered on
als_clear_intr_gated(d, w) ==
    IF d.power_state = 0
    THEN [d |-> d, ret |-> 0, x |-> << >>]
    ELSE [d |-> d, ret |-> 0, x |-> << Xfer("write_byte", BitOr(ALS_CLEAR, ALS_CMD), NoVal, w) >>]

\* void: the result of the write is only logged
als_clear_intr(d, w) ==
    [d |-> d, ret |-> 0, x |-> << Xfer("write_byte", BitOr(ALS_CLEAR, ALS_CMD), NoVal, w) >>]

\* variant: the device is powered back off once the identity is verified
\* (w3 is the outcome of both trailing writes)
als_chip_init_poweroff(d, w1, w2, r, w3) ==
    LET off == als_set_power_state(d, 0, w1)
        on  == als_set_power_state(off.d, 1, w2)
        rd  == Xfer("read_byte_data", BitOr(ALS_CONTROL, ALS_CMD), NoVal, r)
        dis == als_set_intr_state(on.d, 0, w3)
        fin == als_set_power_state(dis.d, 0, w3)
    IN  IF off.ret < 0
        THEN [d |-> off.d, ret |-> off.ret, x |-> off.x]
        ELSE IF on.ret < 0
        THEN [d |-> on.d, ret |-> on.ret, x |-> off.x \o on.x]
        ELSE IF r # ALS_POWER_ON
        THEN [d |-> on.d, ret |-> -ENODEV, x |-> off.x \o on.x \o << rd >>]
        ELSE IF dis.ret < 0
        THEN [d |-> dis.d, ret |-> dis.ret, x |-> off.x \o on.x \o << rd >> \o dis.x]
        ELSE [d |-> fin.d, ret |-> fin.ret, x |-> off.x \o on.x \o << rd >> \o dis.x \o fin.x]

\* variant: only a failed readback is an error, the value read is not compared
als_chip_init_readerr(d, w1, w2, r, w3) ==
    LET off == als_set_power_state(d, 0, w1)
        on  == als_set_power_state(off.d, 1, w2)
        rd  == Xfer("read_byte_data", BitOr(ALS_CONTROL, ALS_CMD), NoVal, r)
        dis == als_set_intr_state(on.d, 0, w3)
    IN  IF off.ret < 0
        THEN [d |-> off.d, ret |-> off.ret, x |-> off.x]
        ELSE IF on.ret < 0
        THEN [d |-> on.d, ret |-> on.ret, x |-> off.x \o on.x]
        ELSE IF r < 0
        THEN [d |-> on.d, ret |-> -ENODEV, x |-> off.x \o on.x \o << rd >>]
        ELSE IF dis.ret < 0
        THEN [d |-> dis.d, ret |-> dis.ret, x |-> off.x \o on.x \o << rd >> \o dis.x]
        ELSE [d |-> dis.d, ret |-> 0, x |-> off.x \o on.x \o << rd >> \o dis.x]

\* w1, w2, r, w3: outcomes of the transactions in the order they are issued
als_chip_init(d, w1, w2, r, w3) ==
    LET off == als_set_power_state(d, 0, w1)
        on  == als_set_power_state(off.d, 1, w2)
        rd  == Xfer("read_byte_data", BitOr(ALS_CONTROL, ALS_CMD), NoVal, r)
        dis == als_set_intr_state(on.d, 0, w3)
    IN  IF off.ret < 0
        THEN [d |-> off.d, ret |-> off.ret, x |-> off.x]
        ELSE IF on.ret < 0
        THEN [d |-> on.d, ret |-> on.ret, x |-> off.x \o on.x]
        ELSE IF r # ALS_POWER_ON
        THEN [d |-> on.d, ret |-> -ENODEV, x |-> off.x \o on.x \o << rd >>]
        ELSE IF dis.ret < 0
        THEN [d |-> dis.d, ret |-> dis.ret, x |-> off.x \o on.x \o << rd >> \o dis.x]
        ELSE [d |-> dis.d, ret |-> 0, x |-> off.x \o on.x \o << rd >> \o dis.x]

(***************************************************************************)
(* The IIO callbacks.  Each takes and releases data->mutex around the core *)
(* call, so one callback is one step of the session.                       *)
(***************************************************************************)
\* als_channels: << type, channel >>
als_channels == { << IIO_LIGHT, 0 >>, << IIO_INTENSITY, 0 >>, << IIO_INTENSITY, 1 >> }

\* variant: both channels are read before either result is tested
als_read_raw_bothfirst(d, type, channel, r0, r1) ==
    IF type = IIO_LIGHT
    THEN LET c0 == als_get_adc_val(d, 0, r0)
             c1 == als_get_adc_val(d, 1, r1)
         IN  IF c0.ret < 0
             THEN [d |-> d, ret |-> c0.ret, val |-> NoVal, x |-> c0.x \o c1.x, calc |-> NoCalc]
             ELSE IF c1.ret < 0
             THEN [d |-> d, ret |-> c1.ret, val |-> NoVal, x |-> c0.x \o c1.x, calc |-> NoCalc]
             ELSE LET l == als_calculate_lux_steps(c0.ret, c1.ret)
                  IN  [d |-> d, ret |-> IIO_VAL_INT, val |-> l.ret, x |-> c0.x \o c1.x,
                       calc |-> [div |-> l.div, idx |-> l.idx, term |-> l.term]]
    ELSE IF type = IIO_INTENSITY
    THEN LET c == als_get_adc_val(d, channel, r0)
         IN  IF c.ret < 0
             THEN [d |-> d, ret |-> c.ret, val |-> NoVal, x |-> c.x, calc |-> NoCalc]
             ELSE [d |-> d, ret |-> IIO_VAL_INT, val |-> c.ret, x |-> c.x, calc |-> NoCalc]
    ELSE [d |-> d, ret |-> -EINVAL, val |-> NoVal, x |-> << >>, calc |-> NoCalc]

\* val: what is stored through *val (NoVal: nothing is stored); calc: the
\* arithmetic of the lux calculation, when there was one
als_read_raw(d, type, channel, r0, r1) ==
    IF type = IIO_LIGHT
    THEN LET c0 == als_get_adc_val(d, 0, r0)
             c1 == als_get_adc_val(d, 1, r1)
         IN  IF c0.ret < 0
             THEN [d |-> d, ret |-> c0.ret, val |-> NoVal, x |-> c0.x, calc |-> NoCalc]
             ELSE IF c1.ret < 0
             THEN [d |-> d, ret |-> c1.ret, val |-> NoVal, x |-> c0.x \o c1.x, calc |-> NoCalc]
             ELSE LET l == als_calculate_lux_steps(c0.ret, c1.ret)
                  IN  [d |-> d, ret |-> IIO_VAL_INT, val |-> l.ret, x |-> c0.x \o c1.x,
                       calc |-> [div |-> l.div, idx |-> l.idx, term |-> l.term]]
    ELSE IF type = IIO_INTENSITY
    THEN LET c == als_get_adc_val(d, channel, r0)
         IN  IF c.ret < 0
             THEN [d |-> d, ret |-> c.ret, val |-> NoVal, x |-> c.x, calc |-> NoCalc]
             ELSE [d |-> d, ret |-> IIO_VAL_INT, val |-> c.ret, x |-> c.x, calc |-> NoCalc]
    ELSE [d |-> d, ret |-> -EINVAL, val |-> NoVal, x |-> << >>, calc |-> NoCalc]

\* variant: the two directions are taken for each other
als_read_thresh_swapped(d, dir) ==
    IF dir = IIO_EV_DIR_RISING
    THEN [d |-> d, ret |-> 0, val |-> d.thresh_low, x |-> << >>]
    ELSE IF dir = IIO_EV_DIR_FALLING
    THEN [d |-> d, ret |-> 0, val |-> d.thresh_hi, x |-> << >>]
    ELSE [d |-> d, ret |-> -EINVAL, val |-> NoVal, x |-> << >>]

als_read_thresh(d, dir) ==
    IF dir = IIO_EV_DIR_RISING
    THEN [d |-> d, ret |-> 0, val |-> d.thresh_hi, x |-> << >>]
    ELSE IF dir = IIO_EV_DIR_FALLING
    THEN [d |-> d, ret |-> 0, val |-> d.thresh_low, x |-> << >>]
    ELSE [d |-> d, ret |-> -EINVAL, val |-> NoVal, x |-> << >>]

als_write_thresh(d, dir, val, w) ==
    IF dir = IIO_EV_DIR_RISING
    THEN als_set_thresh_hi(d, val, w)
    ELSE als_set_thresh_low(d, val, w)

als_read_interrupt_config(d) ==
    [d |-> d, ret |-> d.intr_en, x |-> << >>]

als_write_interrupt_config(d, state, w) ==
    als_set_intr_state(d, state, w)

\* IIO_UNMOD_EVENT_CODE(IIO_EV_CLASS_LIGHT, 0, IIO_EV_TYPE_THRESH, dir) pushed
\* when n bus transactions of the call had been issued
Event(dir, n) == [class |-> "light", number |-> 0, type |-> "thresh", dir |-> dir, at |-> n]

\* variant: the latch is cleared first, the event is pushed afterwards
als_interrupt_handler_clearfirst(d, w) ==
    LET clr == als_clear_intr(d, w)
    IN  [d |-> clr.d, ret |-> 1, ev |-> << Event(IIO_EV_DIR_EITHER, Len(clr.x)) >>, x |-> clr.x]

\* ev: the events pushed (iio_push_event); the latch is cleared after the
\* push; returns IRQ_HANDLED (1)
als_interrupt_handler(d, w) ==
    LET ev  == << Event(IIO_EV_DIR_EITHER, 0) >>
        clr == als_clear_intr(d, w)
    IN  [d |-> clr.d, ret |-> 1, ev |-> ev, x |-> clr.x]

\* variant: the result of the power-off replaces the error being returned
als_probe_err_ret(d, ret, w) ==
    LET off == als_set_power_state(d, 0, w)
    IN  [d |-> off.d, ret |-> IF off.ret < 0 THEN off.ret ELSE ret, x |-> off.x]

\* the error path of als_probe (label err): power off, result ignored
als_probe_err(d, ret, w) ==
    LET off == als_set_power_state(d, 0, w)
    IN  [d |-> off.d, ret |-> ret, x |-> off.x]

\* variant: the success path falls through into the err label
als_probe_finish_fallthrough(d, init_ret, irq, q, g, w) ==
    LET off == als_set_power_state(d, 0, w)
    IN  IF init_ret < 0 THEN [d |-> off.d, ret |-> init_ret, x |-> off.x, bound |-> FALSE]
        ELSE IF irq # 0 /\ q # 0 THEN [d |-> off.d, ret |-> q, x |-> off.x, bound |-> FALSE]
        ELSE IF g < 0 THEN [d |-> off.d, ret |-> g, x |-> off.x, bound |-> FALSE]
        ELSE [d |-> off.d, ret |-> 0, x |-> off.x, bound |-> TRUE]

\* the rest of als_probe once als_chip_init has returned init_ret:
\* q the result of devm_request_threaded_irq, g of iio_device_register
als_probe_finish(d, init_ret, irq, q, g, w) ==
    IF init_ret < 0 THEN als_probe_err(d, init_ret, w) @@ [bound |-> FALSE]
    ELSE IF irq # 0 /\ q # 0 THEN als_probe_err(d, q, w) @@ [bound |-> FALSE]
    ELSE IF g < 0 THEN als_probe_err(d, g, w) @@ [bound |-> FALSE]
    ELSE [d |-> d, ret |-> 0, x |-> << >>, bound |-> TRUE]

\* variant: the power-off is issued whatever the interrupt-disable returned,
\* and its result is what is returned
als_remove_besteffort(d, w1, w2) ==
    LET dis == als_set_intr_state(d, 0, w1)
        off == als_set_power_state(dis.d, 0, w2)
    IN  [d |-> off.d, ret |-> off.ret, x |-> dis.x \o off.x]

als_remove(d, w1, w2) ==
    LET dis == als_set_intr_state(d, 0, w1)
        off == als_set_power_state(dis.d, 0, w2)
    IN  IF dis.ret = 0
        THEN [d |-> off.d, ret |-> off.ret, x |-> dis.x \o off.x]
        ELSE [d |-> dis.d, ret |-> dis.ret, x |-> dis.x]

(***************************************************************************)
(* State                                                                   *)
(***************************************************************************)
VARIABLES
    data,       \* struct als_data of the session
    pre,        \* the session when the last call began
    call,       \* the last call: [op, arg, ret]
    xfers,      \* the bus transactions of the last call, in order
    events,     \* the events the last call pushed to the IIO core, in order
    out,        \* what the last call stored through *val (NoVal: nothing)
    phase,      \* "unbound", "init" (als_probe past als_chip_init), "bound",
                \* "oops"; "core" under SpecCore
    client_irq, \* client->irq of the board (0: no interrupt line)
    irq_active, \* als_interrupt_handler is registered on the line
    hdr_power,  \* the word of struct iio_dev that lies where power_state
                \* lies in struct als_data (-1: as the IIO core left it)
    calc,       \* the arithmetic of the lux calculation of the last call
    mutex,      \* data->mutex: the thread that holds it (Unlocked: none)
    thr,        \* under SpecConc, for each thread the call it is in and
                \* the point it has reached
    key         \* under SpecKey, the power-key driver: its pwrkey_drv_data,
                \* its interrupt line, its work item and the SNVS registers

vars == << data, pre, call, xfers, events, out, phase, client_irq, irq_active, hdr_power, calc,
          mutex, thr, key >>

\* the threads that call into the driver, and the thread of the interrupt
Clients == {1, 2}
IrqThread == 3
Threads == Clients \cup {IrqThread}
\* what als_interrupt_handler returns
IRQ_HANDLED == 1
\* mutex_init: nobody holds the mutex
Unlocked == 0
\* a thread outside the driver; in a call: the callback, its arguments, the
\* point reached, the value of ret, the channel 0 reading, and *val
Idle == [op |-> "none", arg |-> << >>, pc |-> "idle", ret |-> 0, c0 |-> -1, val |-> -1]

NoCall == [op |-> "none", arg |-> << >>, ret |-> 0]

(***************************************************************************)
(* The power-key driver (snvs_pwrkey.c)                                    *)
(***************************************************************************)
SNVS_LPSR_REG == 76
SNVS_LPCR_REG == 56
SNVS_LPSR_SPO == 262144
SNVS_LPSR_EO == 131072
SNVS_LPCR_DEP_EN == 32

RECURSIVE BitClear(_, _)
\* a & ~b on non-negative integers: the status bits left in the LP status
\* register holding a after b is written to it
BitClear(a, b) ==
    IF a = 0 THEN 0
    ELSE (IF a % 2 = 1 /\ b % 2 = 0 THEN 1 ELSE 0) + (2 * BitClear(a \div 2, b \div 2))

\* a C bool passed as an int
BoolInt(b) == IF b THEN 1 ELSE 0

\* struct pwrkey_drv_data as kzalloc leaves it; input is "null", then
\* "registered", then "released" (the device it points to is gone)
ZeroKeyData ==
    [irq |-> 0, keycode |-> "none", keyup |-> FALSE, keydown |-> FALSE, input |-> "null"]

\* input_event(input, EV_KEY, code, value) and input_sync(input)
KeyEvent(code, value) == [type |-> "EV_KEY", code |-> code, value |-> value]
SynEvent == [type |-> "EV_SYN", code |-> "SYN_REPORT", value |-> 0]

\* the calls pwr_keys_work_func makes to the input core, in order
pwr_keys_work_func(pd) ==
    LET up == pd.keyup
        down == pd.keydown
    IN  IF up
        THEN << KeyEvent(pd.keycode, BoolInt(down)), SynEvent,
                KeyEvent(pd.keycode, BoolInt(~up)), SynEvent >>
        ELSE << KeyEvent(pd.keycode, BoolInt(~down)), SynEvent >>

\* snvs_pwrkey_interrupt with the LP status and LP control registers holding
\* lpsr and lpcr: the driver data after it, its register accesses, the value
\* written back, whether it schedules the work item, and its result
snvs_pwrkey_interrupt(pd, lpsr, lpcr) ==
    LET lp_status == lpsr
        lp_cr == lpcr
    IN  [pd |-> pd,
         x |-> << Xfer("readl", SNVS_LPSR_REG, NoVal, lp_status),
                  Xfer("readl", SNVS_LPCR_REG, NoVal, lp_cr),
                  Xfer("writel", SNVS_LPSR_REG, lp_status, 0) >>,
         ack |-> lp_status,
         sched |-> TRUE,
         ret |-> IRQ_HANDLED]

\* the power-key driver before it is probed: stage is "unbound", "requested"
\* (snvs_pwrkey_probe past request_irq), "disabled" (past disable_irq),
\* "bound", "failed", "removed" or "oops"; line is the interrupt line, "free"
\* or requested and "on" or "off"; drvdata tells whether the platform
\* device's driver data points to pdata; pending tells whether the work item
\* is queued
NoKey ==
    [stage |-> "unbound", pdata |-> ZeroKeyData, drvdata |-> FALSE, line |-> "free",
     lpsr |-> 0, lpcr |-> 0, pending |-> FALSE]

\* arguments tried
ThreshVals == (-1 .. SmallMax) \cup {10, 100, 150, 65535, 65536}
StateVals == {0, 1}
Dirs == {IIO_EV_DIR_EITHER, IIO_EV_DIR_RISING, IIO_EV_DIR_FALLING}
\* results of devm_request_threaded_irq and of iio_device_register
IrqRes == {0, -EBUSY}
RegRes == {0, -EEXIST}

\* a call returns: the history variables take its record
ReturnCalc(op, arg, d, ret, x, ev, o, c) ==
    /\ pre' = data
    /\ data' = d
    /\ call' = [op |-> op, arg |-> arg, ret |-> ret]
    /\ xfers' = x
    /\ events' = ev
    /\ out' = o
    /\ calc' = c
    /\ UNCHANGED << mutex, thr, key >>

\* the same for a call that calculates no lux value
Return(op, arg, d, ret, x, ev, o) == ReturnCalc(op, arg, d, ret, x, ev, o, NoCalc)

(***************************************************************************)
(* SpecCore: the core functions called directly                            *)
(***************************************************************************)
Done(op, arg, res) ==
    /\ Return(op, arg, res.d, res.ret, res.x, << >>, NoVal)
    /\ UNCHANGED << phase, client_irq, irq_active, hdr_power >>

CoreInit ==
    /\ data = ZeroData
    /\ pre = ZeroData
    /\ call = NoCall
    /\ xfers = << >>
    /\ events = << >>
    /\ out = NoVal
    /\ phase = "core"
    /\ client_irq = 0
    /\ irq_active = FALSE
    /\ hdr_power = -1
    /\ calc = NoCalc
    /\ mutex = Unlocked
    /\ thr = [t \in Threads |-> Idle]
    /\ key = NoKey

CoreSetPower ==
    /\ phase = "core"
    /\ \E state \in StateVals, w \in WriteRes :
        Done("als_set_power_state", << state >>, als_set_power_state(data, state, w))

CoreGetAdc ==
    /\ phase = "core"
    /\ \E n \in {0, 1}, r \in ReadWordRes :
        Done("als_get_adc_val", << n >>, als_get_adc_val(data, n, r))

CoreSetThreshLow ==
    /\ phase = "core"
    /\ \E v \in ThreshVals, w \in WriteRes :
        Done("als_set_thresh_low", << v >>, als_set_thresh_low(data, v, w))

CoreSetThreshHi ==
    /\ phase = "core"
    /\ \E v \in ThreshVals, w \in WriteRes :
        Done("als_set_thresh_hi", << v >>, als_set_thresh_hi(data, v, w))

CoreSetIntr ==
    /\ phase = "core"
    /\ \E state \in StateVals, w \in WriteRes :
        Done("als_set_intr_state", << state >>, als_set_intr_state(data, state, w))

CoreClearIntr ==
    /\ phase = "core"
    /\ \E w \in WriteRes :
        Done("als_clear_intr", << >>, als_clear_intr(data, w))

CoreChipInit ==
    /\ phase = "core"
    /\ \E w1 \in WriteRes, w2 \in WriteRes, r \in ReadByteRes, w3 \in WriteRes :
        Done("als_chip_init", << >>, als_chip_init(data, w1, w2, r, w3))

CoreNext ==
    \/ CoreSetPower
    \/ CoreGetAdc
    \/ CoreSetThreshLow
    \/ CoreSetThreshHi
    \/ CoreSetIntr
    \/ CoreClearIntr
    \/ CoreChipInit

SpecCore == CoreInit /\ [][CoreNext]_vars

(***************************************************************************)
(* Spec: the driver bound to a device by the kernel                        *)
(***************************************************************************)
Init ==
    /\ data = ZeroData
    /\ pre = ZeroData
    /\ call = NoCall
    /\ xfers = << >>
    /\ events = << >>
    /\ out = NoVal
    /\ phase = "unbound"
    /\ client_irq \in {0, 1}
    /\ irq_active = FALSE
    /\ hdr_power = -1
    /\ calc = NoCalc
    /\ mutex = Unlocked
    /\ thr = [t \in Threads |-> Idle]
    /\ key = NoKey

\* als_probe up to the return of als_chip_init (alloc: iio_allocate_device
\* succeeded); the session is a fresh zeroed allocation
ProbeInit ==
    /\ phase = "unbound"
    /\ \E alloc \in BOOLEAN, w1 \in WriteRes, w2 \in WriteRes, r \in ReadByteRes, w3 \in WriteRes :
        IF ~alloc
        THEN /\ Return("als_probe", << >>, data, -ENOMEM, << >>, << >>, NoVal)
             /\ UNCHANGED << phase, hdr_power >>
        ELSE LET res == als_chip_init(ZeroData, w1, w2, r, w3)
             IN  /\ pre' = ZeroData
                 /\ data' = res.d
                 /\ call' = [op |-> "als_chip_init", arg |-> << >>, ret |-> res.ret]
                 /\ xfers' = res.x
                 /\ events' = << >>
                 /\ out' = NoVal
                 /\ phase' = "init"
                 /\ hdr_power' = -1
                 /\ calc' = NoCalc
    /\ UNCHANGED << client_irq, irq_active, mutex, thr, key >>

\* als_probe from the return of als_chip_init to its own return
ProbeFinish ==
    /\ phase = "init"
    /\ \E q \in IrqRes, g \in RegRes, w \in WriteRes :
        LET res == als_probe_finish(data, call.ret, client_irq, q, g, w)
        IN  /\ data' = res.d
            /\ call' = [op |-> "als_probe", arg |-> << >>, ret |-> res.ret]
            /\ xfers' = xfers \o res.x
            /\ phase' = IF res.bound THEN "bound" ELSE "unbound"
            /\ irq_active' = (res.bound /\ client_irq # 0)
    /\ UNCHANGED << pre, events, out, client_irq, hdr_power, calc, mutex, thr, key >>

Bound == phase = "bound"
\* als_info (with the event callbacks) is installed only with an interrupt line
HasEvents == Bound /\ client_irq # 0

ReadRaw ==
    /\ Bound
    /\ \E ch \in als_channels, r0 \in ReadWordRes :
      \E r1 \in IF ch[1] = IIO_LIGHT THEN ReadWordRes ELSE {0} :
        LET res == als_read_raw(data, ch[1], ch[2], r0, r1)
        IN  ReturnCalc("als_read_raw", ch, res.d, res.ret, res.x, << >>, res.val, res.calc)
    /\ UNCHANGED << phase, client_irq, irq_active, hdr_power >>

ReadThresh ==
    /\ HasEvents
    /\ \E dir \in Dirs :
        LET res == als_read_thresh(data, dir)
        IN  Return("als_read_thresh", << dir >>, res.d, res.ret, res.x, << >>, res.val)
    /\ UNCHANGED << phase, client_irq, irq_active, hdr_power >>

WriteThresh ==
    /\ HasEvents
    /\ \E dir \in Dirs, v \in ThreshVals, w \in WriteRes :
        LET res == als_write_thresh(data, dir, v, w)
        IN  Return("als_write_thresh", << dir, v >>, res.d, res.ret, res.x, << >>, NoVal)
    /\ UNCHANGED << phase, client_irq, irq_active, hdr_power >>

ReadInterruptConfig ==
    /\ HasEvents
    /\ LET res == als_read_interrupt_config(data)
       IN  Return("als_read_interrupt_config", << >>, res.d, res.ret, res.x, << >>, NoVal)
    /\ UNCHANGED << phase, client_irq, irq_active, hdr_power >>

WriteInterruptConfig ==
    /\ HasEvents
    /\ \E state \in StateVals, w \in WriteRes :
        LET res == als_write_interrupt_config(data, state, w)
        IN  Return("als_write_interrupt_config", << state >>, res.d, res.ret, res.x, << >>, NoVal)
    /\ UNCHANGED << phase, client_irq, irq_active, hdr_power >>

Interrupt ==
    /\ Bound
    /\ irq_active
    /\ \E w \in WriteRes :
        LET res == als_interrupt_handler(data, w)
        IN  Return("als_interrupt_handler", << >>, res.d, res.ret, res.x, res.ev, NoVal)
    /\ UNCHANGED << phase, client_irq, irq_active, hdr_power >>

\* als_suspend (state 0) and als_resume (state 1).  i2c_get_clientdata
\* returns the struct iio_dev that als_probe stored, and the code uses it as
\* the struct als_data: client, mutex and power_state are read and written
\* in the memory of the iio_dev, not in the session.  Either the access
\* through the bogus client pointer faults (the call never returns: phase
\* "oops", nothing runs after it), or the call goes through and what it
\* stores lands in the iio_dev.
PmSetPower(op, state) ==
    /\ \E fault \in BOOLEAN, w \in WriteRes :
        IF fault
        THEN /\ Return("oops", << >>, data, 0, << >>, << >>, NoVal)
             /\ phase' = "oops"
             /\ UNCHANGED hdr_power
        ELSE LET res == als_set_power_state([ZeroData EXCEPT !.power_state = hdr_power], state, w)
             IN  /\ Return(op, << >>, data, res.ret, << >>, << >>, NoVal)
                 /\ hdr_power' = res.d.power_state
                 /\ UNCHANGED phase
    /\ UNCHANGED << client_irq, irq_active >>

Suspend ==
    /\ Bound
    /\ PmSetPower("als_suspend", 0)

Resume ==
    /\ Bound
    /\ PmSetPower("als_resume", 1)

\* als_remove; the devm-managed interrupt goes with the device
Remove ==
    /\ Bound
    /\ \E w1 \in WriteRes, w2 \in WriteRes :
        LET res == als_remove(data, w1, w2)
        IN  Return("als_remove", << >>, res.d, res.ret, res.x, << >>, NoVal)
    /\ phase' = "unbound"
    /\ irq_active' = FALSE
    /\ UNCHANGED << client_irq, hdr_power >>

Next ==
    \/ ProbeInit
    \/ ProbeFinish
    \/ ReadRaw
    \/ ReadThresh
    \/ WriteThresh
    \/ ReadInterruptConfig
    \/ WriteInterruptConfig
    \/ Interrupt
    \/ Suspend
    \/ Resume
    \/ Remove

Spec == Init /\ [][Next]_vars

(***************************************************************************)
(* SpecLux: als_calculate_lux applied to channel readings                  *)
(***************************************************************************)
\* channel values 0 .. LuxSmall are tried besides the named ones
LuxCh0 == (0 .. LuxSmall) \cup {100, 1000, 65535}
LuxCh1 == (0 .. LuxSmall) \cup {30, 52, 53, 65, 66, 80, 81, 130, 131, 300, 520, 530,
                                650, 659, 660, 800, 809, 810, 1300, 1309, 1310, 34000,
                                65535}

\* a pair of readings << ch0, ch1 >> waiting to be converted
LuxInput(ch0, ch1) == [op |-> "input", arg |-> << ch0, ch1 >>, ret |-> 0]

LuxInit ==
    /\ data = ZeroData
    /\ pre = ZeroData
    /\ \E ch0 \in LuxCh0, ch1 \in LuxCh1 : call = LuxInput(ch0, ch1)
    /\ xfers = << >>
    /\ events = << >>
    /\ out = NoVal
    /\ phase = "lux"
    /\ client_irq = 0
    /\ irq_active = FALSE
    /\ hdr_power = -1
    /\ calc = NoCalc
    /\ mutex = Unlocked
    /\ thr = [t \in Threads |-> Idle]
    /\ key = NoKey

\* the readings are converted
LuxCalc ==
    /\ phase = "lux"
    /\ call.op = "input"
    /\ LET l == als_calculate_lux_steps(call.arg[1], call.arg[2])
       IN  /\ call' = [op |-> "als_calculate_lux", arg |-> call.arg, ret |-> l.ret]
           /\ calc' = [div |-> l.div, idx |-> l.idx, term |-> l.term]
    /\ UNCHANGED << data, pre, xfers, events, out, phase, client_irq, irq_active, hdr_power,
                    mutex, thr, key >>

\* the next pair of readings arrives
LuxRead ==
    /\ phase = "lux"
    /\ call.op = "als_calculate_lux"
    /\ \E ch0 \in LuxCh0, ch1 \in LuxCh1 : call' = LuxInput(ch0, ch1)
    /\ calc' = NoCalc
    /\ UNCHANGED << data, pre, xfers, events, out, phase, client_irq, irq_active, hdr_power,
                    mutex, thr, key >>

LuxNext ==
    \/ LuxCalc
    \/ LuxRead

SpecLux == LuxInit /\ [][LuxNext]_vars

(***************************************************************************)
(* SpecConc: the calls of a bound session, one access at a time            *)
(***************************************************************************)
\* Each thread runs one call at a time; a step is one lock operation, one
\* access to a field of the session or one bus transaction.
ConcThresh == {10, 100}
ConcWriteRes == {0, -EIO}
ConcReadRes == {1000, -EIO}

Enter(op, arg, pc) == [op |-> op, arg |-> arg, pc |-> pc, ret |-> 0, c0 |-> NoVal, val |-> NoVal]

\* what a client can call, with the point where the callback starts:
\* als_read_raw, als_write_thresh and als_write_interrupt_config start with
\* mutex_lock; als_read_thresh and als_read_interrupt_config with the read
\* of the field; als_suspend and als_resume with mutex_lock on what
\* i2c_get_clientdata returned
ConcCalls ==
    {Enter("als_read_raw", << IIO_LIGHT, 0 >>, "lock")}
    \cup {Enter("als_write_thresh", << dir, v >>, "lock") :
              dir \in {IIO_EV_DIR_RISING, IIO_EV_DIR_FALLING}, v \in ConcThresh}
    \cup {Enter("als_write_interrupt_config", << state >>, "lock") : state \in StateVals}
    \cup {Enter("als_read_thresh", << dir >>, "thr_get") :
              dir \in {IIO_EV_DIR_RISING, IIO_EV_DIR_FALLING}}
    \cup {Enter("als_read_interrupt_config", << >>, "intr_get")}
    \cup {Enter("als_suspend", << 0 >>, "pm_lock"), Enter("als_resume", << 1 >>, "pm_lock")}

\* the first statement after mutex_lock
Body(op) ==
    IF op = "als_read_raw" THEN "adc0_chk"
    ELSE IF op = "als_write_thresh" THEN "thr_chk"
    ELSE "intr_chk"

\* where a core function returns to: als_remove calls without the mutex
Exit(op) == IF op = "als_remove" THEN "ret" ELSE "unlock"

\* thread t moves to pc with ret
Step(t, pc, ret) == thr' = [thr EXCEPT ![t].pc = pc, ![t].ret = ret]

\* the session as als_probe leaves it on a board with an interrupt line
ConcInit ==
    /\ data = als_chip_init(ZeroData, 0, 0, ALS_POWER_ON, 0).d
    /\ pre = ZeroData
    /\ call = NoCall
    /\ xfers = << >>
    /\ events = << >>
    /\ out = NoVal
    /\ phase = "bound"
    /\ client_irq = 1
    /\ irq_active = TRUE
    /\ hdr_power = -1
    /\ calc = NoCalc
    /\ mutex = Unlocked
    /\ thr = [t \in Threads |-> Idle]
    /\ key = NoKey

\* a client thread enters a callback
ConcCall ==
    /\ phase = "bound"
    /\ \E t \in Clients, c \in ConcCalls :
        /\ thr[t].pc = "idle"
        /\ thr' = [thr EXCEPT ![t] = c]
    /\ UNCHANGED << data, pre, call, xfers, events, out, phase, client_irq, irq_active,
                    hdr_power, calc, mutex, key >>

\* als_remove is entered; iio_device_unregister has waited for the calls in
\* flight and lets no new one in
ConcRemove ==
    /\ phase = "bound"
    /\ \A u \in Clients : thr[u].pc = "idle"
    /\ \E t \in Clients : thr' = [thr EXCEPT ![t] = Enter("als_remove", << 0 >>, "intr_chk")]
    /\ phase' = "detach"
    /\ UNCHANGED << data, pre, call, xfers, events, out, client_irq, irq_active,
                    hdr_power, calc, mutex, key >>

\* variant: the thread does not wait for the holder of the mutex
ConcMutexLock_nowait ==
    /\ \E t \in Clients :
        /\ thr[t].pc = "lock"
        /\ mutex' = t
        /\ Step(t, Body(thr[t].op), thr[t].ret)
    /\ UNCHANGED << data, pre, call, xfers, events, out, phase, client_irq, irq_active,
                    hdr_power, calc, key >>

\* mutex_lock(&data->mutex): waits while another thread holds it
ConcMutexLock ==
    /\ mutex = Unlocked
    /\ \E t \in Clients :
        /\ thr[t].pc = "lock"
        /\ mutex' = t
        /\ Step(t, Body(thr[t].op), thr[t].ret)
    /\ UNCHANGED << data, pre, call, xfers, events, out, phase, client_irq, irq_active,
                    hdr_power, calc, key >>

\* mutex_unlock(&data->mutex)
ConcMutexUnlock ==
    /\ \E t \in Clients :
        /\ thr[t].pc = "unlock"
        /\ Step(t, "ret", thr[t].ret)
    /\ mutex' = Unlocked
    /\ UNCHANGED << data, pre, call, xfers, events, out, phase, client_irq, irq_active,
                    hdr_power, calc, key >>

\* the callback returns; the return of als_remove unbinds the device
ConcReturn ==
    /\ \E t \in Clients :
        /\ thr[t].pc = "ret"
        /\ thr' = [thr EXCEPT ![t] = Idle]
        /\ phase' = IF thr[t].op = "als_remove" THEN "unbound" ELSE phase
        /\ irq_active' = (irq_active /\ thr[t].op # "als_remove")
    /\ UNCHANGED << data, pre, call, xfers, events, out, client_irq, hdr_power, calc, mutex, key >>

\* als_get_adc_val: if (!data->power_state) return -EAGAIN
ConcGetAdcCheck ==
    /\ \E t \in Clients :
        /\ thr[t].pc \in {"adc0_chk", "adc1_chk"}
        /\ IF data.power_state = 0
           THEN Step(t, "unlock", -EAGAIN)
           ELSE Step(t, IF thr[t].pc = "adc0_chk" THEN "adc0_bus" ELSE "adc1_bus", thr[t].ret)
    /\ UNCHANGED << data, pre, call, xfers, events, out, phase, client_irq, irq_active,
                    hdr_power, calc, mutex, key >>

\* als_get_adc_val: i2c_smbus_read_word_data, and what als_read_raw does
\* with the result
ConcGetAdcRead ==
    /\ \E t \in Clients, r \in ConcReadRes :
        /\ thr[t].pc \in {"adc0_bus", "adc1_bus"}
        /\ IF r < 0
           THEN Step(t, "unlock", r)
           ELSE IF thr[t].pc = "adc0_bus"
           THEN thr' = [thr EXCEPT ![t].pc = "adc1_chk", ![t].c0 = r]
           ELSE thr' = [thr EXCEPT ![t].pc = "unlock", ![t].ret = IIO_VAL_INT,
                                   ![t].val = als_calculate_lux(thr[t].c0, r)]
    /\ UNCHANGED << data, pre, call, xfers, events, out, phase, client_irq, irq_active,
                    hdr_power, calc, mutex, key >>

\* als_set_thresh_low, als_set_thresh_hi: if (!data->power_state)
ConcSetThreshCheck ==
    /\ \E t \in Clients :
        /\ thr[t].pc = "thr_chk"
        /\ IF data.power_state = 0
           THEN Step(t, "unlock", -EAGAIN)
           ELSE Step(t, "thr_cmp", thr[t].ret)
    /\ UNCHANGED << data, pre, call, xfers, events, out, phase, client_irq, irq_active,
                    hdr_power, calc, mutex, key >>

\* the test of the value against ALS_THRESH_MAX and the other threshold
ConcSetThreshCompare ==
    /\ \E t \in Clients :
        /\ thr[t].pc = "thr_cmp"
        /\ LET value == thr[t].arg[2]
               bad == IF thr[t].arg[1] = IIO_EV_DIR_RISING
                      THEN value > ALS_THRESH_MAX \/ value < data.thresh_low
                      ELSE value > ALS_THRESH_MAX \/ value > data.thresh_hi
           IN  IF bad THEN Step(t, "unlock", -EINVAL) ELSE Step(t, "thr_bus", thr[t].ret)
    /\ UNCHANGED << data, pre, call, xfers, events, out, phase, client_irq, irq_active,
                    hdr_power, calc, mutex, key >>

\* i2c_smbus_write_word_data of the threshold
ConcSetThreshWrite ==
    /\ \E t \in Clients, w \in ConcWriteRes :
        /\ thr[t].pc = "thr_bus"
        /\ Step(t, IF w = 0 THEN "thr_store" ELSE "unlock", w)
    /\ UNCHANGED << data, pre, call, xfers, events, out, phase, client_irq, irq_active,
                    hdr_power, calc, mutex, key >>

\* data->thresh_hi = value, data->thresh_low = value
ConcSetThreshStore ==
    /\ \E t \in Clients :
        /\ thr[t].pc = "thr_store"
        /\ data' = IF thr[t].arg[1] = IIO_EV_DIR_RISING
                   THEN [data EXCEPT !.thresh_hi = thr[t].arg[2]]
                   ELSE [data EXCEPT !.thresh_low = thr[t].arg[2]]
        /\ Step(t, "unlock", thr[t].ret)
    /\ UNCHANGED << pre, call, xfers, events, out, phase, client_irq, irq_active,
                    hdr_power, calc, mutex, key >>

\* als_set_intr_state: if (!data->power_state)
ConcSetIntrCheck ==
    /\ \E t \in Clients :
        /\ thr[t].pc = "intr_chk"
        /\ IF data.power_state = 0
           THEN Step(t, Exit(thr[t].op), -EAGAIN)
           ELSE Step(t, "intr_bus", thr[t].ret)
    /\ UNCHANGED << data, pre, call, xfers, events, out, phase, client_irq, irq_active,
                    hdr_power, calc, mutex, key >>

\* i2c_smbus_write_byte_data of the INTERRUPT register
ConcSetIntrWrite ==
    /\ \E t \in Clients, w \in ConcWriteRes :
        /\ thr[t].pc = "intr_bus"
        /\ Step(t, IF w = 0 THEN "intr_store" ELSE Exit(thr[t].op), w)
    /\ UNCHANGED << data, pre, call, xfers, events, out, phase, client_irq, irq_active,
                    hdr_power, calc, mutex, key >>

\* data->intr_en = state; als_remove goes on to als_set_power_state
ConcSetIntrStore ==
    /\ \E t \in Clients :
        /\ thr[t].pc = "intr_store"
        /\ data' = [data EXCEPT !.intr_en = thr[t].arg[1]]
        /\ Step(t, IF thr[t].op = "als_remove" THEN "pwr_bus" ELSE "unlock", thr[t].ret)
    /\ UNCHANGED << pre, call, xfers, events, out, phase, client_irq, irq_active,
                    hdr_power, calc, mutex, key >>

\* als_set_power_state(data, 0) of als_remove: the write of CONTROL
ConcSetPowerWrite ==
    /\ \E t \in Clients, w \in ConcWriteRes :
        /\ thr[t].pc = "pwr_bus"
        /\ Step(t, IF w = 0 THEN "pwr_store" ELSE "ret", w)
    /\ UNCHANGED << data, pre, call, xfers, events, out, phase, client_irq, irq_active,
                    hdr_power, calc, mutex, key >>

\* data->power_state = state
ConcSetPowerStore ==
    /\ \E t \in Clients :
        /\ thr[t].pc = "pwr_store"
        /\ data' = [data EXCEPT !.power_state = 0]
        /\ Step(t, "ret", thr[t].ret)
    /\ UNCHANGED << pre, call, xfers, events, out, phase, client_irq, irq_active,
                    hdr_power, calc, mutex, key >>

\* als_read_thresh: *val = data->thresh_hi or data->thresh_low
ConcReadThresh ==
    /\ \E t \in Clients :
        /\ thr[t].pc = "thr_get"
        /\ thr' = [thr EXCEPT ![t].pc = "ret",
                              ![t].val = als_read_thresh(data, thr[t].arg[1]).val]
    /\ UNCHANGED << data, pre, call, xfers, events, out, phase, client_irq, irq_active,
                    hdr_power, calc, mutex, key >>

\* als_read_interrupt_config: return data->intr_en
ConcReadInterruptConfig ==
    /\ \E t \in Clients :
        /\ thr[t].pc = "intr_get"
        /\ Step(t, "ret", als_read_interrupt_config(data).ret)
    /\ UNCHANGED << data, pre, call, xfers, events, out, phase, client_irq, irq_active,
                    hdr_power, calc, mutex, key >>

\* als_suspend, als_resume: mutex_lock on the struct iio_dev taken for the
\* session: the thread faults on it (and stays there) or goes on; the
\* mutex of the session is not touched
ConcPmLock ==
    /\ \E t \in Clients, fault \in BOOLEAN :
        /\ thr[t].pc = "pm_lock"
        /\ Step(t, IF fault THEN "oops" ELSE "pm_store", thr[t].ret)
    /\ UNCHANGED << data, pre, call, xfers, events, out, phase, client_irq, irq_active,
                    hdr_power, calc, mutex, key >>

\* als_set_power_state on the struct iio_dev, and the mutex_unlock on it
ConcPmStore ==
    /\ \E t \in Clients, w \in ConcWriteRes :
        /\ thr[t].pc = "pm_store"
        /\ LET res == als_set_power_state([ZeroData EXCEPT !.power_state = hdr_power],
                                          thr[t].arg[1], w)
           IN  /\ hdr_power' = res.d.power_state
               /\ Step(t, "ret", res.ret)
    /\ UNCHANGED << data, pre, call, xfers, events, out, phase, client_irq, irq_active,
                    calc, mutex, key >>

\* the interrupt thread enters als_interrupt_handler and pushes the event
ConcIrqEvent ==
    /\ irq_active
    /\ thr[IrqThread].pc = "idle"
    /\ thr' = [thr EXCEPT ![IrqThread] = Enter("als_interrupt_handler", << >>, "clr_bus")]
    /\ UNCHANGED << data, pre, call, xfers, events, out, phase, client_irq, irq_active,
                    hdr_power, calc, mutex, key >>

\* als_clear_intr: the write of the clear command, then IRQ_HANDLED
ConcIrqClear ==
    /\ thr[IrqThread].pc = "clr_bus"
    /\ thr' = [thr EXCEPT ![IrqThread] = [Idle EXCEPT !.ret = IRQ_HANDLED]]
    /\ UNCHANGED << data, pre, call, xfers, events, out, phase, client_irq, irq_active,
                    hdr_power, calc, mutex, key >>

ConcNext ==
    \/ ConcCall
    \/ ConcRemove
    \/ ConcMutexLock
    \/ ConcMutexUnlock
    \/ ConcReturn
    \/ ConcGetAdcCheck
    \/ ConcGetAdcRead
    \/ ConcSetThreshCheck
    \/ ConcSetThreshCompare
    \/ ConcSetThreshWrite
    \/ ConcSetThreshStore
    \/ ConcSetIntrCheck
    \/ ConcSetIntrWrite
    \/ ConcSetIntrStore
    \/ ConcSetPowerWrite
    \/ ConcSetPowerStore
    \/ ConcReadThresh
    \/ ConcReadInterruptConfig
    \/ ConcPmLock
    \/ ConcPmStore
    \/ ConcIrqEvent
    \/ ConcIrqClear

SpecConc == ConcInit /\ [][ConcNext]_vars

(***************************************************************************)
(* SpecKey: the power-key driver, one step of probe, one interrupt, one    *)
(* run of the work item or one remove at a time                            *)
(***************************************************************************)
\* the values the LP status register takes, results of platform_get_irq
LpStatus == {0, SNVS_LPSR_EO, SNVS_LPSR_SPO, SNVS_LPSR_EO + SNVS_LPSR_SPO}
IrqNums == {-1, 0}

\* a step of the power-key driver: the history variables take its record
KeyRet(op, arg, ret, x, ev) ==
    /\ call' = [op |-> op, arg |-> arg, ret |-> ret]
    /\ xfers' = x
    /\ events' = ev
    /\ UNCHANGED << data, pre, out, phase, client_irq, irq_active, hdr_power, calc,
                    mutex, thr >>

KeyInit ==
    /\ data = ZeroData
    /\ pre = ZeroData
    /\ call = NoCall
    /\ xfers = << >>
    /\ events = << >>
    /\ out = NoVal
    /\ phase = "key"
    /\ client_irq = 0
    /\ irq_active = FALSE
    /\ hdr_power = -1
    /\ calc = NoCalc
    /\ mutex = Unlocked
    /\ thr = [t \in Threads |-> Idle]
    /\ \E st \in LpStatus : key = [NoKey EXCEPT !.lpsr = st]

\* the SNVS block latches a key event in the LP status register
KeyPress ==
    /\ key.stage # "oops"
    /\ \E st \in LpStatus :
        /\ BitOr(key.lpsr, st) # key.lpsr
        /\ key' = [key EXCEPT !.lpsr = BitOr(key.lpsr, st)]
    /\ UNCHANGED << data, pre, call, xfers, events, out, phase, client_irq, irq_active,
                    hdr_power, calc, mutex, thr >>

\* snvs_pwrkey_probe up to request_irq. The driver is probed again only with
\* no work item of the earlier binding queued.
KeyProbeRequest ==
    /\ key.stage \in {"unbound", "failed", "removed"}
    /\ ~key.pending
    /\ \E res \in BOOLEAN, mem \in BOOLEAN, n \in IrqNums, rq \in IrqRes :
        IF ~res
        THEN /\ KeyRet("snvs_pwrkey_probe", << key.stage >>, -ENODEV, << >>, << >>)
             /\ UNCHANGED key
        ELSE IF ~mem
        THEN /\ KeyRet("snvs_pwrkey_probe", << key.stage >>, -ENOMEM, << >>, << >>)
             /\ UNCHANGED key
        ELSE LET got == n >= 0 /\ rq = 0 /\ key.line = "free"
                 lp_cr == BitOr(key.lpcr, SNVS_LPCR_DEP_EN)
             IN  /\ key' = [stage |-> "requested",
                            pdata |-> [ZeroKeyData EXCEPT
                                           !.irq = IF n >= 0 /\ ~got THEN -1 ELSE n,
                                           !.keycode = "KEY_POWER"],
                            drvdata |-> TRUE,
                            line |-> IF got THEN "on" ELSE key.line,
                            lpsr |-> key.lpsr,
                            lpcr |-> lp_cr,
                            pending |-> FALSE]
                 /\ KeyRet("request_irq", << n >>, IF got \/ n < 0 THEN 0 ELSE -EBUSY,
                           << Xfer("readl", SNVS_LPCR_REG, NoVal, key.lpcr),
                              Xfer("writel", SNVS_LPCR_REG, lp_cr, 0) >>, << >>)

\* snvs_pwrkey_probe: disable_irq after a successful request_irq
KeyProbeDisable ==
    /\ key.stage = "requested"
    /\ key' = [key EXCEPT !.stage = "disabled",
                          !.line = IF key.pdata.irq >= 0 THEN "off" ELSE @]
    /\ KeyRet("disable_irq", << key.pdata.irq >>, 0, << >>, << >>)

\* snvs_pwrkey_probe from input_allocate_device to its return
KeyProbeFinish ==
    /\ key.stage = "disabled"
    /\ \E alloc \in BOOLEAN, reg \in RegRes :
        IF ~alloc \/ reg # 0
        THEN /\ key' = [key EXCEPT !.stage = "failed", !.drvdata = FALSE,
                                   !.pending = FALSE]
             /\ KeyRet("snvs_pwrkey_probe", << "disabled" >>,
                       IF ~alloc THEN -ENOMEM ELSE reg, << >>, << >>)
        ELSE /\ key' = [key EXCEPT !.stage = "bound", !.pdata.input = "registered",
                                   !.line = IF key.pdata.irq >= 0 THEN "on" ELSE @]
             /\ KeyRet("snvs_pwrkey_probe", << "disabled" >>, 0, << >>, << >>)

\* the line is enabled and the LP status register holds a latched event:
\* snvs_pwrkey_interrupt runs. Without driver data it dereferences NULL.
KeyInterrupt ==
    /\ key.stage # "oops"
    /\ key.line = "on"
    /\ key.lpsr # 0
    /\ IF ~key.drvdata
       THEN /\ key' = [key EXCEPT !.stage = "oops"]
            /\ KeyRet("snvs_pwrkey_interrupt", << key.stage >>, 0, << >>, << >>)
       ELSE LET r == snvs_pwrkey_interrupt(key.pdata, key.lpsr, key.lpcr)
            IN  /\ key' = [key EXCEPT !.pdata = r.pd,
                                      !.lpsr = BitClear(key.lpsr, r.ack),
                                      !.pending = key.pending \/ r.sched]
                /\ KeyRet("snvs_pwrkey_interrupt", << key.stage >>, r.ret, r.x, << >>)

\* the work item runs. With pdata->input NULL the first input_event faults;
\* with pdata->input pointing to the released device it faults or goes
\* through.
KeyWork ==
    /\ key.stage # "oops"
    /\ key.pending
    /\ \E fault \in BOOLEAN :
        /\ fault => key.pdata.input = "released"
        /\ IF key.pdata.input = "null" \/ fault
           THEN /\ key' = [key EXCEPT !.stage = "oops", !.pending = FALSE]
                /\ KeyRet("pwr_keys_work_func", << key.pdata.input >>, 0, << >>, << >>)
           ELSE /\ key' = [key EXCEPT !.pending = FALSE]
                /\ KeyRet("pwr_keys_work_func", << key.pdata.input >>, 0, << >>,
                          pwr_keys_work_func(key.pdata))

\* snvs_pwrkey_remove: input_free_device on the device that
\* input_unregister_device has released faults or goes through; the
\* interrupt line and the driver data stay as they are
KeyRemove ==
    /\ key.stage = "bound"
    /\ \E fault \in BOOLEAN :
        IF fault
        THEN /\ key' = [key EXCEPT !.stage = "oops", !.pdata.input = "released"]
             /\ KeyRet("snvs_pwrkey_remove", << >>, 0, << >>, << >>)
        ELSE /\ key' = [key EXCEPT !.stage = "removed", !.pdata.input = "released",
                                   !.pending = FALSE]
             /\ KeyRet("snvs_pwrkey_remove", << >>, 0, << >>, << >>)

KeyNext ==
    \/ KeyPress
    \/ KeyProbeRequest
    \/ KeyProbeDisable
    \/ KeyProbeFinish
    \/ KeyInterrupt
    \/ KeyWork
    \/ KeyRemove

SpecKey == KeyInit /\ [][KeyNext]_vars

(***************************************************************************)
(* Properties                                                              *)
(***************************************************************************)
\* a write of v to the CONTROL register / to the INTERRUPT register
IsControlWrite(t, v) == t.prim = "write_byte_data" /\ t.cmd = 128 /\ t.val = v
IsInterruptWrite(t, v) == t.prim = "write_byte_data" /\ t.cmd = 134 /\ t.val = v
IsControlRead(t) == t.prim = "read_byte_data" /\ t.cmd = 128
\* the CONTROL writes among the transactions x, in order
ControlWrites(x) == SelectSeq(x, LAMBDA t : t.prim = "write_byte_data" /\ t.cmd = 128)

GatedOps == {"als_get_adc_val", "als_set_thresh_low", "als_set_thresh_hi", "als_set_intr_state"}

\* C1: a power-gated core operation (ADC read of channel 0 or 1, low/high
\* threshold write, interrupt-enable write) called while power_state is
\* false returns -EAGAIN, issues no bus transaction and leaves the whole
\* session (power_state, thresh_low, thresh_hi, intr_en) as it was.
C1_PowerGate ==
    (call.op \in GatedOps /\ pre.power_state = 0)
        => (call.ret = -EAGAIN /\ xfers = << >> /\ data = pre)

\* a gated call refused on a session that was configured and then powered off
C1_Witness ==
    /\ call.op = "als_set_thresh_low"
    /\ pre.power_state = 0
    /\ pre.thresh_hi = 100
    /\ pre.intr_en = 1
    /\ call.ret = -EAGAIN

\* C2: the stored thresholds are ordered, thresh_low <= thresh_hi, in every
\* state of the driver, whatever calls succeeded, were rejected or failed.
C2_ThreshOrdered == data.thresh_low <= data.thresh_hi

\* both thresholds moved away from their initial value by accepted writes
C2_Witness ==
    /\ phase = "bound"
    /\ call.op = "als_write_thresh"
    /\ call.ret = 0
    /\ data.thresh_low = 100
    /\ data.thresh_hi = 150

\* the threshold write is for the low (falling) / the high (rising) threshold
IsLowWrite == call.op = "als_write_thresh" /\ call.arg[1] # IIO_EV_DIR_RISING
IsHighWrite == call.op = "als_write_thresh" /\ call.arg[1] = IIO_EV_DIR_RISING

\* C3: while powered on, a low-threshold write above the stored high
\* threshold and a high-threshold write below the stored low threshold fail
\* with -EINVAL, issue no bus transaction and leave both thresholds as
\* they were.
C3_OrderRejected ==
    (/\ pre.power_state # 0
     /\ \/ IsLowWrite /\ call.arg[2] > pre.thresh_hi
        \/ IsHighWrite /\ call.arg[2] < pre.thresh_low)
        => (call.ret = -EINVAL /\ xfers = << >> /\ data = pre)

\* low = 10, high = 100, setThresholdLow(150) is refused and low is still 10
C3_Witness ==
    /\ IsLowWrite
    /\ call.arg[2] = 150
    /\ pre.thresh_low = 10
    /\ pre.thresh_hi = 100
    /\ call.ret = -EINVAL
    /\ data.thresh_low = 10

\* C4: while powered on, a threshold write with a value outside 0..65535
\* (negative or above 65535) fails with -EINVAL, issues no bus transaction
\* and leaves the stored thresholds as they were.
C4_RangeRejected ==
    (/\ pre.power_state # 0
     /\ call.op = "als_write_thresh"
     /\ (call.arg[2] < 0 \/ call.arg[2] > 65535))
        => (call.ret = -EINVAL /\ xfers = << >> /\ data = pre)

\* C5: als_set_power_state(state) issues one byte write to CONTROL, of 0x03
\* for on and 0x00 for off; when the write succeeds power_state is the
\* requested state, when it fails the session is as before and the bus
\* error is what is returned.
C5_SetPower ==
    call.op = "als_set_power_state"
        => /\ Len(xfers) = 1
           /\ IsControlWrite(xfers[1], IF call.arg[1] = 1 THEN 3 ELSE 0)
           /\ call.ret = xfers[1].res
           /\ call.ret = 0 => data = [pre EXCEPT !.power_state = call.arg[1]]
           /\ call.ret # 0 => data = pre

\* a failed power-off leaves the session powered on
C5_Witness ==
    /\ call.op = "als_set_power_state"
    /\ call.arg = << 0 >>
    /\ pre.power_state = 1
    /\ call.ret = -EIO
    /\ data.power_state = 1

\* C6: when als_chip_init succeeds during attach, and still when the attach
\* then succeeds, the session is powered on with interrupts disabled.
C6_InitPoweredOn ==
    (call.op \in {"als_chip_init", "als_probe"} /\ call.ret = 0)
        => (data.power_state = 1 /\ data.intr_en = 0)

\* initialization has just succeeded: all four transactions were accepted
C6_Witness ==
    /\ phase = "init"
    /\ call.op = "als_chip_init"
    /\ call.ret = 0
    /\ Len(xfers) = 4
    /\ xfers[3].res = 3

\* C7 as stated: after a successful attach the device was powered back off:
\* the last CONTROL write is power-off and power_state is false.
C7_Original ==
    (call.op = "als_probe" /\ call.ret = 0)
        => /\ data.power_state = 0
           /\ Len(ControlWrites(xfers)) > 0
           /\ ControlWrites(xfers)[Len(ControlWrites(xfers))].val = 0

\* C7 (amended): a successful attach writes power-off, then power-on, reads
\* CONTROL back and disables interrupts, and nothing more: the last CONTROL
\* write is power-on and the session is left powered on with interrupts
\* disabled.
C7_AttachLeavesOn ==
    (call.op = "als_probe" /\ call.ret = 0)
        => /\ Len(xfers) = 4
           /\ IsControlWrite(xfers[1], 0)
           /\ IsControlWrite(xfers[2], 3)
           /\ IsControlRead(xfers[3])
           /\ IsInterruptWrite(xfers[4], 0)
           /\ ControlWrites(xfers)[Len(ControlWrites(xfers))].val = 3
           /\ data.power_state = 1
           /\ data.intr_en = 0

\* a successful attach of a board with an interrupt line
C7_Witness ==
    /\ phase = "bound"
    /\ call.op = "als_probe"
    /\ call.ret = 0
    /\ irq_active

\* C8: als_chip_init issues power-off write, power-on write, CONTROL read,
\* interrupt-disable write, in this order, each one exactly when the one
\* before succeeded (the read: returned 0x03); a readback other than 0x03,
\* a failed read included, ends it with -ENODEV after the third transaction.
C8_InitLinear ==
    call.op = "als_chip_init"
        => LET n == Len(xfers)
           IN  /\ n \in 1 .. 4
               /\ IsControlWrite(xfers[1], 0)
               /\ (n = 1) = (xfers[1].res # 0)
               /\ n >= 2 => /\ IsControlWrite(xfers[2], 3)
                            /\ (n = 2) = (xfers[2].res # 0)
               /\ n >= 3 => /\ IsControlRead(xfers[3])
                            /\ (n = 3) = (xfers[3].res # 3)
                            /\ xfers[3].res # 3 => call.ret = -ENODEV
               /\ n = 4 => IsInterruptWrite(xfers[4], 0)

\* the chip answered the readback with another value than 0x03
C8_Witness ==
    /\ call.op = "als_chip_init"
    /\ Len(xfers) = 3
    /\ xfers[3].res = 0
    /\ call.ret = -ENODEV

\* the failure that made als_probe fail, read off the transactions of
\* als_chip_init (x without the final power-off); 0 when they all succeeded
RECURSIVE InitFailure(_, _)
InitFailure(x, i) ==
    IF i > Len(x) THEN 0
    ELSE IF x[i].prim = "read_byte_data"
    THEN (IF x[i].res # 3 THEN -ENODEV ELSE InitFailure(x, i + 1))
    ELSE (IF x[i].res # 0 THEN x[i].res ELSE InitFailure(x, i + 1))

\* C9: when attach fails in initialization, in the interrupt registration
\* or in the framework registration, its last bus transaction is a
\* power-off write to CONTROL and it returns the failure that occurred,
\* whatever the outcome of that power-off.
C9_FailedAttachPowersOff ==
    (call.op = "als_probe" /\ call.ret < 0 /\ call.ret # -ENOMEM)
        => /\ Len(xfers) >= 2
           /\ IsControlWrite(xfers[Len(xfers)], 0)
           /\ LET f == InitFailure(SubSeq(xfers, 1, Len(xfers) - 1), 1)
              IN  IF f # 0 THEN call.ret = f
                           ELSE call.ret \in {-EBUSY, -EEXIST}

\* identity mismatch, and the power-off attempted on the way out fails too
C9_Witness ==
    /\ call.op = "als_probe"
    /\ call.ret = -ENODEV
    /\ Len(xfers) = 4
    /\ xfers[4].res = -EIO

\* C10: after als_remove a power-off write was attempted, and unless every
\* bus write of the detach failed the session has interrupts disabled and
\* is powered off.
C10_DetachQuiescent ==
    call.op = "als_remove"
        => /\ \E i \in 1 .. Len(xfers) : IsControlWrite(xfers[i], 0)
           /\ (\E i \in 1 .. Len(xfers) : xfers[i].res = 0)
                  => (data.intr_en = 0 /\ data.power_state = 0)

\* C11: a run of the interrupt handler pushes exactly one threshold event
\* of direction "either", then issues exactly one bus transaction, the
\* interrupt-clear byte 0xC0 (the event is pushed before any transaction),
\* and leaves power_state, thresh_low, thresh_hi and intr_en as they were.
C11_InterruptOnce ==
    call.op = "als_interrupt_handler"
        => /\ Len(events) = 1
           /\ events[1].type = "thresh"
           /\ events[1].dir = IIO_EV_DIR_EITHER
           /\ events[1].at = 0
           /\ Len(xfers) = 1
           /\ xfers[1].prim = "write_byte"
           /\ xfers[1].cmd = 192
           /\ data = pre

\* an interrupt on a session with interrupts enabled, whose clear fails
C11_Witness ==
    /\ call.op = "als_interrupt_handler"
    /\ pre.intr_en = 1
    /\ pre.thresh_hi = 100
    /\ xfers[1].res = -EIO

\* floor(ch0 * coef * 5930 / 1000) in exact arithmetic, as
\* floor(p * 593 / 100) for p = ch0 * coef = 100 * a + b
ExactTerm(ch0, coef) ==
    LET p == ch0 * coef
    IN  ((p \div 100) * 593) + (((p % 100) * 593) \div 100)

\* the piecewise formula in exact integer arithmetic
ExactLux(ch0, ch1) ==
    IF ch0 = 0 THEN 0
    ELSE LET ratio == (ch1 * 100) \div ch0
             v == IF ratio <= 52 THEN (3150 * ch0) - ExactTerm(ch0, lux_ratio_at(ratio))
                  ELSE IF ratio <= 65 THEN (2290 * ch0) - (2910 * ch1)
                  ELSE IF ratio <= 80 THEN (1570 * ch0) - (1800 * ch1)
                  ELSE IF ratio <= 130 THEN (338 * ch0) - (260 * ch1)
                  ELSE 0
         IN  v \div 100000

\* C12: for all readings, als_calculate_lux returns the value of the
\* piecewise formula evaluated in exact integer arithmetic and floor-divided
\* by 100000.
C12_ExactFormula ==
    call.op = "als_calculate_lux"
        => call.ret = ExactLux(call.arg[1], call.arg[2])

\* C13: with ch0 = 0, als_calculate_lux returns 0 for every ch1 and performs
\* neither the division nor a read of the lux ratio table.
C13_ZeroCh0 ==
    (call.op = "als_calculate_lux" /\ call.arg[1] = 0)
        => (call.ret = 0 /\ ~calc.div /\ calc.idx = -1)

\* the conversion of ch0 = 0 with the largest ch1
C13_Witness ==
    /\ call.op = "als_calculate_lux"
    /\ call.arg = << 0, 65535 >>
    /\ call.ret = 0

\* C14: in the table branch the term subtracted is exactly
\* floor(ch0 * lux_ratio[ratio] * 5930 / 1000): the product does not
\* overflow or wrap.
C14_TermExact ==
    (call.op = "als_calculate_lux" /\ calc.idx # -1)
        => calc.term = U32FromInt(ExactTerm(call.arg[1], lux_ratio_at(calc.idx)))

\* a successful als_write_thresh is the last call
ThreshWritten == call.op = "als_write_thresh" /\ call.ret = 0

\* C15: a successful write of a threshold leaves the other threshold as it
\* was, and a read of the same threshold (rising for the upper one, falling
\* for the lower one) as the very next call delivers the value written.
C15_RoundTrip ==
    [][/\ ThreshWritten'
          => IF call'.arg[1] = IIO_EV_DIR_RISING
             THEN data'.thresh_low = data.thresh_low
             ELSE data'.thresh_hi = data.thresh_hi
       /\ (ThreshWritten /\ call'.op = "als_read_thresh")
          => IF call.arg[1] = IIO_EV_DIR_RISING
             THEN call'.arg[1] = IIO_EV_DIR_RISING
                     => (call'.ret = 0 /\ out' = call.arg[2])
             ELSE call'.arg[1] = IIO_EV_DIR_FALLING
                     => (call'.ret = 0 /\ out' = call.arg[2])
      ]_vars

\* the upper threshold was raised from 100 to 150 over a lower one of 10
C15_Witness ==
    /\ ThreshWritten
    /\ call.arg = << IIO_EV_DIR_RISING, 150 >>
    /\ pre.thresh_hi = 100
    /\ data.thresh_hi = 150
    /\ data.thresh_low = 10

\* the core operations that issue one bus primitive
SingleOps == {"als_set_power_state", "als_get_adc_val", "als_set_thresh_low",
              "als_set_thresh_hi", "als_set_intr_state"}

\* C18: nothing is retried: each of these operations issues at most one bus
\* transaction, and when that transaction fails its error is what the
\* operation returns, with no further transaction.
C18_NoRetry ==
    call.op \in SingleOps
        => /\ Len(xfers) <= 1
           /\ (Len(xfers) = 1 /\ xfers[1].res < 0) => call.ret = xfers[1].res

\* a channel read failed on the bus
C18_Witness ==
    /\ call.op = "als_get_adc_val"
    /\ pre.power_state = 1
    /\ Len(xfers) = 1
    /\ xfers[1].res = -EIO
    /\ call.ret = -EIO

\* C19: a write of a threshold or of the interrupt enable whose bus
\* transaction fails leaves every field of the session as it was and
\* returns the error of the bus unchanged.
C19_FailedWriteKeeps ==
    (/\ call.op \in {"als_write_thresh", "als_write_interrupt_config"}
     /\ Len(xfers) > 0
     /\ xfers[1].res # 0)
        => (data = pre /\ call.ret = xfers[1].res /\ Len(xfers) = 1)

\* the write of a new upper threshold timed out
C19_Witness ==
    /\ call.op = "als_write_thresh"
    /\ call.arg = << IIO_EV_DIR_RISING, 150 >>
    /\ call.ret = -ETIMEDOUT
    /\ data.thresh_hi = 100

\* C20: a read of the illuminance channel reads DATA0, then DATA1, and
\* delivers the lux value of the two readings; the first failing read ends
\* the call with its error, DATA1 is not read after DATA0 failed, and no
\* value is delivered on failure.
C20_ReadLux ==
    (call.op = "als_read_raw" /\ call.arg[1] = IIO_LIGHT)
        => IF pre.power_state = 0
           THEN xfers = << >> /\ call.ret = -EAGAIN /\ out = NoVal
           ELSE /\ Len(xfers) >= 1
                /\ xfers[1].prim = "read_word_data"
                /\ xfers[1].cmd = 172
                /\ IF xfers[1].res < 0
                   THEN Len(xfers) = 1 /\ call.ret = xfers[1].res /\ out = NoVal
                   ELSE /\ Len(xfers) = 2
                        /\ xfers[2].prim = "read_word_data"
                        /\ xfers[2].cmd = 174
                        /\ IF xfers[2].res < 0
                           THEN call.ret = xfers[2].res /\ out = NoVal
                           ELSE /\ call.ret = IIO_VAL_INT
                                /\ out = als_calculate_lux(xfers[1].res, xfers[2].res)
                /\ data = pre

\* DATA0 failed: the call ends after one transaction
C20_Witness ==
    /\ call.op = "als_read_raw"
    /\ call.arg[1] = IIO_LIGHT
    /\ Len(xfers) = 1
    /\ xfers[1].res = -EIO
    /\ call.ret = -EIO
    /\ out = NoVal

\* C17: als_suspend that returns 0 has powered the session of als_probe off
\* (and gated calls fail with -EAGAIN from then on).
C17_SuspendPowersOff ==
    (call.op = "als_suspend" /\ call.ret = 0) => data.power_state = 0

\* the points at which the next step of a client thread reads or writes a
\* field of the session or issues a bus transaction
AccessPcs == {"adc0_chk", "adc0_bus", "adc1_chk", "adc1_bus",
              "thr_chk", "thr_cmp", "thr_bus", "thr_store", "thr_get",
              "intr_chk", "intr_bus", "intr_store", "intr_get",
              "pwr_bus", "pwr_store", "pm_store"}

\* C16: a client, detach, suspend or resume call reads or writes the fields
\* of the session and uses the bus only while its thread holds the mutex of
\* the session (the clear write of the interrupt thread is the exception).
C16_AccessUnderMutex ==
    \A t \in Clients : thr[t].pc \in AccessPcs => mutex = t

\* the transactions of x that failed on the bus, and the first of them
FailedAt(x) == {i \in 1 .. Len(x) : x[i].res < 0}
FirstFailed(x) == CHOOSE i \in FailedAt(x) : \A j \in FailedAt(x) : i <= j

\* the calls whose bus errors the caller is to see
PassOps == {"als_chip_init", "als_read_raw", "als_write_thresh",
            "als_write_interrupt_config", "als_interrupt_handler", "als_remove"}

C22_CallsReturn ==
    \A t \in Clients :
        /\ thr[t].pc # "oops"
        /\ thr[t].pc \in {"idle", "ret"} => mutex # t

\* bit k of the byte n
BitOf(n, k) == (n \div (2 ^ k)) % 2

\* the register a command byte selects
RegOf(cmd) == cmd % 16

\* the register transaction i of the last call has to address
RegWanted(i) ==
    LET t == xfers[i]
    IN  IF t.prim = "write_word_data"
        THEN (IF call.op = "als_write_thresh" /\ call.arg[1] # IIO_EV_DIR_RISING
              THEN {2} ELSE {4})
        ELSE IF t.prim = "read_word_data"
        THEN (IF call.arg[1] = IIO_LIGHT
              THEN (IF i = 1 THEN {12} ELSE {14})
              ELSE (IF call.arg[2] = 0 THEN {12} ELSE {14}))
        ELSE IF t.prim = "write_byte_data" THEN {0, 6}
        ELSE {0}

\* C23: every bus transaction has bit 7 of its command byte set; bit 5 is
\* set exactly on the word transactions; the low four bits select CONTROL,
\* THRESHLOWLOW, THRESHHIGHLOW, INTERRUPT, DATA0LOW or DATA1LOW as the
\* operation requires.
C23_CommandByte ==
    \A i \in 1 .. Len(xfers) :
        /\ BitOf(xfers[i].cmd, 7) = 1
        /\ BitOf(xfers[i].cmd, 5) = 1
              <=> xfers[i].prim \in {"read_word_data", "write_word_data"}
        /\ RegOf(xfers[i].cmd) \in RegWanted(i)
        /\ xfers[i].cmd < 256

\* channel 1 was read on its own
C23_Witness ==
    /\ call.op = "als_read_raw"
    /\ call.arg = << IIO_INTENSITY, 1 >>
    /\ Len(xfers) = 1
    /\ xfers[1].cmd = 174
    /\ out = 300

\* C24: als_clear_intr issues one byte write of the clear command (0xc0,
\* no register payload) whatever power_state is, and leaves every field of
\* the session as it was whether the write succeeds or fails.
C24_ClearFrame ==
    call.op = "als_clear_intr"
        => /\ Len(xfers) = 1
           /\ xfers[1].prim = "write_byte"
           /\ xfers[1].cmd = 192
           /\ xfers[1].val = NoVal
           /\ data = pre

\* the latch of a powered-off session with interrupts enabled is cleared,
\* and the write fails
C24_Witness ==
    /\ call.op = "als_clear_intr"
    /\ pre.power_state = 0
    /\ pre.intr_en = 1
    /\ xfers[1].res = -EIO
    /\ data.intr_en = 1

\* a conversion that read the table is the last call
TableRead == call.op = "als_calculate_lux" /\ calc.idx # -1

\* C25 as stated: lux_ratio holds exactly 52 coefficients and is read at
\* the indices 0 .. 51.
C25_Original ==
    /\ Len(lux_ratio) = 52
    /\ TableRead => calc.idx \in 0 .. 51

\* C25 amended: lux_ratio holds exactly 53 coefficients and is read at the
\* indices 0 .. 52.
C25_TableSize ==
    /\ Len(lux_ratio) = 53
    /\ TableRead => calc.idx \in 0 .. 52

\* the last coefficient is read
C25_Witness ==
    /\ TableRead
    /\ call.arg = << 1000, 520 >>
    /\ calc.idx = 52
    /\ lux_ratio_at(calc.idx) = 400

\* C26: a ratio of exactly 52 takes the table branch, and whenever the
\* table is read (ch0 >= 1) the index is the ratio and lies within the
\* table, index 52 included.
C26_IndexInBounds ==
    (call.op = "als_calculate_lux" /\ call.arg[1] >= 1)
        => LET ratio == (call.arg[2] * 100) \div call.arg[1]
           IN  /\ (ratio <= 52) <=> (calc.idx # -1)
               /\ calc.idx # -1
                     => (calc.idx = ratio /\ (calc.idx + 1) \in DOMAIN lux_ratio)

\* a ratio of exactly 52 from small readings
C26_Witness ==
    /\ TableRead
    /\ call.arg = << 100, 52 >>
    /\ calc.idx = 52

\* the value of the table branch for ch0 with the coefficient coef
TableLux(ch0, coef) == ((3150 * ch0) - ExactTerm(ch0, coef)) \div 100000

\* C27 as stated: als_calculate_lux(1000, 300) reads the table at ratio 30
\* and returns the value of the formula with lux_ratio[30] = 268.
C27_Original ==
    (call.op = "als_calculate_lux" /\ call.arg = << 1000, 300 >>)
        => /\ calc.idx = 30
           /\ lux_ratio_at(30) = 268
           /\ call.ret = TableLux(1000, 268)

\* C27 amended: als_calculate_lux(1000, 300) reads the table at ratio 30
\* and returns the value of the formula with lux_ratio[30] = 185, which
\* is 20.
C27_Scenario ==
    (call.op = "als_calculate_lux" /\ call.arg = << 1000, 300 >>)
        => /\ calc.idx = 30
           /\ lux_ratio_at(30) = 185
           /\ call.ret = TableLux(1000, 185)
           /\ call.ret = 20

\* the scenario has run
C27_Witness ==
    /\ call.op = "als_calculate_lux"
    /\ call.arg = << 1000, 300 >>
    /\ call.ret = 20

\* the value of a linear branch in exact arithmetic (0 outside of them)
LinearValue(ch0, ch1) ==
    LET ratio == (ch1 * 100) \div ch0
    IN  IF ratio <= 52 THEN 0
        ELSE IF ratio <= 65 THEN (2290 * ch0) - (2910 * ch1)
        ELSE IF ratio <= 80 THEN (1570 * ch0) - (1800 * ch1)
        ELSE IF ratio <= 130 THEN (338 * ch0) - (260 * ch1)
        ELSE 0

\* floor((2^32 + v) / 100000) for a negative v, from
\* 2^32 = 42949 * 100000 + 67296
WrapDiv(v) == 42949 + ((67296 + v) \div 100000)

\* C28: when the subtraction of a branch is negative in exact arithmetic,
\* als_calculate_lux returns the value taken modulo 2^32 and divided by
\* 100000, a huge number, and not 0.
C28_NegativeWraps ==
    (/\ call.op = "als_calculate_lux"
     /\ call.arg[1] >= 1
     /\ LinearValue(call.arg[1], call.arg[2]) < 0)
        => /\ call.ret = WrapDiv(LinearValue(call.arg[1], call.arg[2]))
           /\ call.ret > 40000

\* 338 * 1000 - 260 * 1309 = -2340 at ratio 130
C28_Witness ==
    /\ call.op = "als_calculate_lux"
    /\ call.arg = << 1000, 1309 >>
    /\ calc.idx = -1
    /\ call.ret = 42949

\* als_write_interrupt_config on a powered-on session is the last call
IntrWritten == call.op = "als_write_interrupt_config" /\ pre.power_state = 1

\* C29: on a powered-on session a write of the interrupt enable issues one
\* byte write of the INTERRUPT register, 0x11 to enable and 0x00 to
\* disable, and leaves the thresholds and power_state as they were; when
\* the write succeeded intr_en is the requested state, and a read of the
\* interrupt enable as the very next call returns it.
C29_IntrEnable ==
    [][/\ IntrWritten'
          => /\ Len(xfers') = 1
             /\ IsInterruptWrite(xfers'[1], IF call'.arg[1] # 0 THEN 17 ELSE 0)
             /\ data'.thresh_low = data.thresh_low
             /\ data'.thresh_hi = data.thresh_hi
             /\ data'.power_state = data.power_state
             /\ call'.ret = 0 => data'.intr_en = call'.arg[1]
       /\ (IntrWritten /\ call.ret = 0 /\ call'.op = "als_read_interrupt_config")
          => call'.ret = call.arg[1]
      ]_vars

\* interrupts were enabled with thresholds 10 and 100 in place
C29_Witness ==
    /\ IntrWritten
    /\ call.arg = << 1 >>
    /\ call.ret = 0
    /\ xfers[1].val = 17
    /\ pre.intr_en = 0
    /\ data.intr_en = 1
    /\ data.thresh_low = 10
    /\ data.thresh_hi = 100

\* C30: under every interleaving of threshold writes thresh_low <=
\* thresh_hi holds, and a write that has passed its ordering check holds
\* the mutex and still passes the check against the threshold stored now,
\* up to its own update.
C30_ThreshAtomic ==
    /\ data.thresh_low <= data.thresh_hi
    /\ \A t \in Clients :
        (thr[t].op = "als_write_thresh" /\ thr[t].pc \in {"thr_bus", "thr_store"})
            => /\ mutex = t
               /\ IF thr[t].arg[1] = IIO_EV_DIR_RISING
                  THEN thr[t].arg[2] >= data.thresh_low
                  ELSE thr[t].arg[2] <= data.thresh_hi

\* thread 1 is about to store the upper threshold 10 while thread 2 waits
\* for the mutex to raise the lower threshold to 100
C30_Witness ==
    /\ thr[1].op = "als_write_thresh"
    /\ thr[1].arg = << IIO_EV_DIR_RISING, 10 >>
    /\ thr[1].pc = "thr_store"
    /\ thr[2].op = "als_write_thresh"
    /\ thr[2].arg = << IIO_EV_DIR_FALLING, 100 >>
    /\ thr[2].pc = "lock"
    /\ data.thresh_hi = 100
    /\ mutex = 1

\* the points at which the next step of a thread is a power-gated bus
\* transaction: ADC word read, threshold word write, INTERRUPT byte write
GatedBusPcs == {"adc0_bus", "adc1_bus", "thr_bus", "intr_bus"}

\* C31: while the device is powered off, that is after a power-off that
\* succeeded (als_suspend or als_remove) and before a power-on that
\* succeeds, no thread is past the power check of a gated operation and
\* about to issue its bus transaction.
C31_NoGatedWhileOff ==
    (hdr_power = 0 \/ data.power_state = 0)
        => \A t \in Clients : thr[t].pc \notin GatedBusPcs

\* the points at which the next step of a thread is a bus transaction
BusPcs == GatedBusPcs \cup {"pwr_bus", "pm_store"}

\* C32: while a lux read is between its channel 0 and channel 1 reads it
\* holds the mutex, and no other client thread is about to issue a bus
\* transaction, of a client call, of als_suspend or of als_resume.
C32_LuxReadAlone ==
    \A t \in Clients :
        (thr[t].op = "als_read_raw" /\ thr[t].pc \in {"adc1_chk", "adc1_bus"})
            => /\ mutex = t
               /\ \A u \in Clients \ {t} : thr[u].pc \notin BusPcs

\* C33: in exact arithmetic the value of the table branch and of the
\* branches 52 < ratio <= 65 and 65 < ratio <= 80 is never negative (so
\* what the two linear ones return is the exact quotient); a negative value
\* arises only for 80 < ratio <= 130.
C33_NonNegative ==
    (call.op = "als_calculate_lux" /\ call.arg[1] >= 1)
        => LET ch0 == call.arg[1]
               ch1 == call.arg[2]
               ratio == (ch1 * 100) \div ch0
           IN  /\ TableRead => 3150 * ch0 >= ExactTerm(ch0, lux_ratio_at(calc.idx))
               /\ ratio \in 53 .. 80
                     => /\ LinearValue(ch0, ch1) >= 0
                        /\ call.ret = LinearValue(ch0, ch1) \div 100000
               /\ LinearValue(ch0, ch1) < 0 => ratio \in 81 .. 130

\* the upper end of the branch 65 < ratio <= 80
C33_Witness ==
    /\ call.op = "als_calculate_lux"
    /\ call.arg = << 1000, 809 >>
    /\ calc.idx = -1
    /\ call.ret = 1

ThreshWriteOf(dir) ==
    call.op = "als_write_thresh" /\ call.arg[1] = dir /\ pre.power_state = 1

\* C35: a successful attach leaves thresh_low = thresh_hi = 0 and writes no
\* threshold register; a write of the lower threshold above thresh_hi is
\* rejected with -EINVAL, and thresh_hi changes only by a successful write
\* of the upper threshold; a write of the upper threshold from thresh_low
\* to 65535, and then one of the lower threshold from 0 to thresh_hi, is
\* carried out, so that every pair 0 <= L <= H <= 65535 can be set, the
\* upper one first.
C35_InitialThresholds ==
    /\ (call.op = "als_probe" /\ call.ret = 0)
          => /\ data.thresh_low = 0
             /\ data.thresh_hi = 0
             /\ \A i \in 1 .. Len(xfers) : xfers[i].prim # "write_word_data"
    /\ data.thresh_hi # pre.thresh_hi
          => (ThreshWriteOf(IIO_EV_DIR_RISING) /\ call.ret = 0)
    /\ ThreshWriteOf(IIO_EV_DIR_FALLING)
          => IF call.arg[2] > pre.thresh_hi
             THEN call.ret = -EINVAL /\ data = pre /\ xfers = << >>
             ELSE call.arg[2] >= 0
                     => /\ Len(xfers) = 1
                        /\ xfers[1].res = 0
                              => (call.ret = 0 /\ data.thresh_low = call.arg[2])
    /\ (/\ ThreshWriteOf(IIO_EV_DIR_RISING)
        /\ call.arg[2] >= pre.thresh_low
        /\ call.arg[2] <= 65535)
          => /\ Len(xfers) = 1
             /\ xfers[1].res = 0 => (call.ret = 0 /\ data.thresh_hi = call.arg[2])

\* the first call after attach tries to set the lower threshold to 10
C35_Witness ==
    /\ ThreshWriteOf(IIO_EV_DIR_FALLING)
    /\ call.arg[2] = 10
    /\ pre.thresh_hi = 0
    /\ pre.thresh_low = 0
    /\ call.ret = -EINVAL
    /\ xfers = << >>

\* C36: als_suspend and als_resume change power_state and nothing else:
\* the thresholds and intr_en stay, no bus transaction other than the
\* CONTROL write is issued, the memory of the struct iio_dev is left as the
\* IIO core set it up, and after a return of 0 the session is powered off
\* (suspend) or on (resume).
C36_PowerFrame ==
    call.op \in {"als_suspend", "als_resume"}
        => /\ data.thresh_low = pre.thresh_low
           /\ data.thresh_hi = pre.thresh_hi
           /\ data.intr_en = pre.intr_en
           /\ \A i \in 1 .. Len(xfers) : IsControlWrite(xfers[i], xfers[i].val)
           /\ hdr_power = -1
           /\ call.ret = 0
                 => data.power_state = (IF call.op = "als_suspend" THEN 0 ELSE 1)

\* the EV_KEY events among the calls ev made to the input core, in order
KeyEvents(ev) == SelectSeq(ev, LAMBDA e : e.type = "EV_KEY")

\* C37: in the power-key driver every interrupt writes back to the LP status
\* register exactly the value it read and schedules the work item, and each
\* run of the work function reports exactly one key event, with value 1
\* (pressed), and never a release, over any sequence of interrupts.
C37_OnePressPerRun ==
    /\ call.op = "snvs_pwrkey_interrupt"
        => /\ Len(xfers) = 3
           /\ xfers[1].prim = "readl" /\ xfers[1].cmd = SNVS_LPSR_REG
           /\ xfers[3] = Xfer("writel", SNVS_LPSR_REG, xfers[1].res, 0)
           /\ key.pending
    /\ call.op = "pwr_keys_work_func"
        => KeyEvents(events) = << KeyEvent("KEY_POWER", 1) >>

\* C38: in the power-key driver the interrupt handler runs and schedules
\* work only between a successful probe and remove: no invocation of the
\* handler happens outside the bound stage, after a failed probe or after
\* remove the handler cannot be entered and no work item is queued, and no
\* run of the work item uses the released input device.
C38_HandlerOnlyWhileBound ==
    /\ call.op = "snvs_pwrkey_interrupt" => call.arg[1] = "bound"
    /\ call.op = "pwr_keys_work_func" => call.arg[1] # "released"
    /\ key.stage \in {"failed", "removed"} => (key.line # "on" /\ ~key.pending)

====
